---- MODULE Spec2Model ----
(***************************************************************************)
(* Model of the DXIL shader debugger's workgroup step loop                 *)
(* (renderdoc/driver/shaders/dxil/dxil_debug.cpp): Debugger::ContinueDebug, *)
(* ThreadState::StepNext / ExecuteInstruction for the opcodes the checked   *)
(* properties need, the per-lane value table, phi capture, the shared       *)
(* global memory arena and the tangle bookkeeping driven by the step loop.  *)
(***************************************************************************)
EXTENDS Integers, Sequences, FiniteSets, TLC

VARIABLES
  program,             \* name of the debugged Program
  threadsInWorkgroup,  \* BeginDebug(threadsInWorkgroup)
  m_ActiveLaneIndex,   \* Debugger::m_ActiveLaneIndex, the observed lane
  m_Steps,             \* Debugger::m_Steps
  m_Workgroup,         \* Debugger::m_Workgroup, lane -> ThreadState
  heap,                \* backing buffers of the global allocations, shared by all lanes
  m_GlobalState,       \* Debugger::m_GlobalState: resource variables and fetched view data
  tangles,             \* m_ControlFlow.GetTangles()
  pc,                  \* position inside ContinueDebug ("idle" between calls, "fault"
                       \* once the process has stopped)
  ret,                 \* the rdcarray<ShaderDebugState> of the current/last call
  loc,                 \* locals of ContinueDebug's step loop
  hist                 \* history of the current call/iteration, read by the properties only

vars == <<program, threadsInWorkgroup, m_ActiveLaneIndex, m_Steps, m_Workgroup, heap,
          m_GlobalState, tangles, pc, ret, loc, hist>>

-----------------------------------------------------------------------------
(* Bounds and constants *)

\* largest workgroup explored
MaxLanes == 4

\* for(int stepEnd = m_Steps + 100; ...)
StepBudget == 100

\* width given to the uint32 words of the program (ids, execution points, lane values)
WordBits == 16

\* ~0U
INVALID_EXECUTION_POINT == 2^WordBits - 1

\* ~0U
INVALID_ID == 2^WordBits - 1

\* uint32 arithmetic of comp<uint32_t>
U32(x) == x % (2^WordBits)

\* comp<S>: the word read as a signed integer
Signed(x) == IF x >= 2^(WordBits - 1) THEN x - 2^WordBits ELSE x

\* GetElementByteSize(VarType::UInt): bitWidth / 8
ElemByteSize == 32 \div 8

\* GetElementByteSize: 4 for the 32-bit types, 0 (after logging) for the unsized ones
GetElementByteSize(type) == IF type \in {"UInt", "Float"} THEN ElemByteSize ELSE 0

\* uint64 arithmetic of the byte offsets, at the width given to the words
U64(x) == x % (2^WordBits)

-----------------------------------------------------------------------------
(* Values *)

\* ShaderVariable: name (empty or the result id), type, the first two components of
\* value (u32v[0], u32v[1]), the members of an aggregate, the direct-access marker
TypedVariable(name, type, value, members) ==
  [name |-> name, type |-> type, value |-> value, value1 |-> 0, members |-> members,
   direct |-> FALSE]

\* a ShaderVariable of VarType::UInt
ShaderVariable(name, value, members) == TypedVariable(name, "UInt", value, members)

\* ShaderVariable()
EmptyVar == ShaderVariable(<<>>, 0, <<>>)

\* ShaderVariableChange {before, after}
Change(before, after) == [before |-> before, after |-> after]

\* ShaderDebugState
NewDebugState == [stepIndex |-> 0, nextInstruction |-> 0, flags |-> {}, changes |-> <<>>]

-----------------------------------------------------------------------------
(* Floats.  A float is its bit pattern in a word: the sign in the top bit,    *)
(* then the exponent, then MantBits bits of mantissa.  Arithmetic is done on  *)
(* the value counted in units of the smallest subnormal, which is exact for   *)
(* operands whose exponent field is 0 or 1, the range the programs stay in.   *)

MantBits == WordBits - 6

SignBit == 2^(WordBits - 1)

Magnitude(x) == x % SignBit

Exponent(x) == Magnitude(x) \div 2^MantBits

Mantissa(x) == x % 2^MantBits

\* the float of the given exponent field and mantissa
F(e, m) == e * 2^MantBits + m

IsDenorm(x) == Exponent(x) = 0 /\ Mantissa(x) # 0

\* RDCISNAN
IsNaN(x) == Exponent(x) = SignBit \div 2^MantBits - 1 /\ Mantissa(x) # 0

\* RDCISFINITE
IsFinite(x) == Exponent(x) # SignBit \div 2^MantBits - 1

\* a quiet NaN
NaN == F(SignBit \div 2^MantBits - 1, 2^(MantBits - 1))

\* the value of a finite float in units of the smallest subnormal
FloatUnits(x) ==
  LET mag == IF Exponent(x) = 0 THEN Mantissa(x)
             ELSE (2^MantBits + Mantissa(x)) * 2^(Exponent(x) - 1)
  IN IF x >= SignBit THEN 0 - mag ELSE mag

\* the float nearest to k units (ties to even), for |k| < 2^(MantBits + 2)
FromUnits(k) ==
  LET mag == IF k < 0 THEN 0 - k ELSE k
      half == mag \div 2
      rounded == IF mag % 2 = 1 /\ half % 2 = 1 THEN half + 1 ELSE half
      bits == IF mag < 2^(MantBits + 1) THEN mag ELSE 2^MantBits + rounded
  IN IF k < 0 THEN SignBit + bits ELSE bits

\* the order of two floats neither of which is a NaN: -1, 0 or 1
FloatOrder(a, b) ==
  LET ka == IF a >= SignBit THEN 0 - Magnitude(a) ELSE Magnitude(a)
      kb == IF b >= SignBit THEN 0 - Magnitude(b) ELSE Magnitude(b)
  IN IF ka < kb THEN 0 - 1 ELSE IF ka = kb THEN 0 ELSE 1

\* the host's float comparison operators: every one but != is false on a NaN
FloatCmp(rel, a, b) ==
  IF IsNaN(a) \/ IsNaN(b) THEN rel = "!="
  ELSE CASE rel = "==" -> FloatOrder(a, b) = 0
         [] rel = "!=" -> FloatOrder(a, b) # 0
         [] rel = "<" -> FloatOrder(a, b) < 0
         [] rel = "<=" -> FloatOrder(a, b) <= 0
         [] rel = ">" -> FloatOrder(a, b) > 0
         [] rel = ">=" -> FloatOrder(a, b) >= 0

\* flush_denorm: a subnormal becomes a zero of the same sign
flush_denorm(x) == IF Exponent(x) # 0 THEN x ELSE x - Mantissa(x)

-----------------------------------------------------------------------------
(* Program representation consumed by the debugger *)

Ssa(id) == [k |-> "ssa", v |-> id]
Lit(v) == [k |-> "lit", v |-> v]
Blk(b) == [k |-> "blk", v |-> b]
Gv(id) == [k |-> "gv", v |-> id]
\* a compound constant of struct type with the given uint members
Cst(members) == [k |-> "cst", v |-> members]
\* the pointee type of an Alloca: kind and number of uint elements
Ty(kind, n) == [k |-> "ty", v |-> <<kind, n>>]

\* a float constant (Constant::isShaderVal) given by its bit pattern
Flt(bits) == [k |-> "flt", v |-> bits]

\* DXIL::Instruction: op, slot (result id), args
Inst(op, slot, args) == [op |-> op, slot |-> slot, args |-> args]

\* Two-branch diamond with a phi and wave reductions at the join:
\*   B0: id = WaveGetLaneIndex(); if(id < 2) B1 else B2
\*   B1: x = id + 10            B2: y = id + 20; y1 = y + 1
\*   B3: v = phi [x,B1],[y1,B2]; WaveActiveSum(id); WaveActiveSum(v); ret
DiamondProgram ==
  [instructions |-> <<
      Inst("LaneIdx", 1, <<>>),
      Inst("Nop", INVALID_ID, <<>>),
      Inst("ULess", 2, <<Ssa(1), Lit(2)>>),
      Inst("Branch", INVALID_ID, <<Blk(1), Blk(2), Ssa(2)>>),
      Inst("Add", 3, <<Ssa(1), Lit(10)>>),
      Inst("Branch", INVALID_ID, <<Blk(3)>>),
      Inst("Add", 4, <<Ssa(1), Lit(20)>>),
      Inst("Add", 5, <<Ssa(4), Lit(1)>>),
      Inst("Branch", INVALID_ID, <<Blk(3)>>),
      Inst("Phi", 6, <<Ssa(3), Blk(1), Ssa(5), Blk(2)>>),
      Inst("WaveSum", 7, <<Lit(0), Ssa(1)>>),
      Inst("WaveSum", 8, <<Lit(0), Ssa(6)>>),
      Inst("Ret", INVALID_ID, <<>>) >>,
   blockStart |-> <<0, 4, 6, 9>>,
   divergentBlocks |-> {0},
   convergentBlocks |-> <<<<0, 3>>>>,
   loopBlocks |-> {},
   nextUniformBlock |-> <<3, 3, 3, 3>>,
   forwardConnections |-> {<<0, 1>>, <<0, 2>>, <<0, 3>>, <<1, 3>>, <<2, 3>>},
   globals |-> <<>>,
   maxId |-> 8]

\* Loop whose header swaps two values through phis:
\*   B0: a0 = id + 100; b0 = id + 200
\*   B1: a = phi [a0,B0],[b,B1]; b = phi [b0,B0],[a,B1]; i = phi [0,B0],[i1,B1];
\*       i1 = i + 1; if(i1 < trip) B1 else B2
\*   B2: ret
LoopProgram(trip) ==
  [instructions |-> <<
      Inst("LaneIdx", 1, <<>>),
      Inst("Add", 2, <<Ssa(1), Lit(100)>>),
      Inst("Add", 3, <<Ssa(1), Lit(200)>>),
      Inst("Branch", INVALID_ID, <<Blk(1)>>),
      Inst("Phi", 4, <<Ssa(2), Blk(0), Ssa(5), Blk(1)>>),
      Inst("Phi", 5, <<Ssa(3), Blk(0), Ssa(4), Blk(1)>>),
      Inst("Phi", 6, <<Lit(0), Blk(0), Ssa(7), Blk(1)>>),
      Inst("Add", 7, <<Ssa(6), Lit(1)>>),
      Inst("ULess", 8, <<Ssa(7), Lit(trip)>>),
      Inst("Branch", INVALID_ID, <<Blk(1), Blk(2), Ssa(8)>>),
      Inst("Ret", INVALID_ID, <<>>) >>,
   blockStart |-> <<0, 4, 10>>,
   divergentBlocks |-> {1},
   convergentBlocks |-> <<<<1, 2>>>>,
   loopBlocks |-> {1},
   nextUniformBlock |-> <<2, 2, 2>>,
   forwardConnections |-> {<<0, 1>>, <<0, 2>>, <<1, 2>>},
   globals |-> <<>>,
   maxId |-> 8]

\* Every lane writes id + 1 to the same element of a groupshared array and reads it back:
\*   p = &g[0]; *p = id + 1; v = *p; ret
SharedProgram ==
  [instructions |-> <<
      Inst("LaneIdx", 1, <<>>),
      Inst("Add", 2, <<Ssa(1), Lit(1)>>),
      Inst("GetElementPtr", 3, <<Gv(0), Lit(0), Lit(0)>>),
      Inst("Store", INVALID_ID, <<Ssa(3), Ssa(2)>>),
      Inst("Nop", INVALID_ID, <<>>),
      Inst("Load", 4, <<Ssa(3)>>),
      Inst("Ret", INVALID_ID, <<>>) >>,
   blockStart |-> <<0>>,
   divergentBlocks |-> {},
   convergentBlocks |-> <<>>,
   loopBlocks |-> {},
   nextUniformBlock |-> <<0>>,
   forwardConnections |-> {},
   globals |-> <<[id |-> 0, cells |-> 2]>>,
   maxId |-> 4]

\* One side of a branch ends in unreachable, the other returns; the function and
\* the block after the branch start with a debug call:
\*   B0: if(id < 1) B1 else B2     B1: unreachable     B2: id + 5; ret
KillProgram ==
  [instructions |-> <<
      Inst("Nop", INVALID_ID, <<>>),
      Inst("LaneIdx", 1, <<>>),
      Inst("ULess", 2, <<Ssa(1), Lit(1)>>),
      Inst("Branch", INVALID_ID, <<Blk(1), Blk(2), Ssa(2)>>),
      Inst("Unreachable", INVALID_ID, <<>>),
      Inst("Nop", INVALID_ID, <<>>),
      Inst("Add", 3, <<Ssa(1), Lit(5)>>),
      Inst("Ret", INVALID_ID, <<>>) >>,
   blockStart |-> <<0, 4, 5>>,
   divergentBlocks |-> {0},
   convergentBlocks |-> <<<<0, 2>>>>,
   loopBlocks |-> {},
   nextUniformBlock |-> <<2, 2, 2>>,
   forwardConnections |-> {<<0, 1>>, <<0, 2>>},
   globals |-> <<>>,
   maxId |-> 3]

\* Quad operations of a pixel shader:
\*   x = id + 7; q = QuadReadLaneAt(x, 3); d = DerivCoarseX(x); r = QuadReadLaneAt(q, 0);
\*   h = 1 < id; e = DerivCoarseX(h); ret
QuadProgram ==
  [instructions |-> <<
      Inst("LaneIdx", 1, <<>>),
      Inst("Add", 2, <<Ssa(1), Lit(7)>>),
      Inst("QuadReadLaneAt", 3, <<Lit(0), Ssa(2), Lit(3)>>),
      Inst("DerivCoarseX", 4, <<Lit(0), Ssa(2)>>),
      Inst("QuadReadLaneAt", 5, <<Lit(0), Ssa(3), Lit(0)>>),
      Inst("ULess", 6, <<Lit(1), Ssa(1)>>),
      Inst("DerivCoarseX", 7, <<Lit(0), Ssa(6)>>),
      Inst("Ret", INVALID_ID, <<>>) >>,
   blockStart |-> <<0>>,
   divergentBlocks |-> {},
   convergentBlocks |-> <<>>,
   loopBlocks |-> {},
   nextUniformBlock |-> <<0>>,
   forwardConnections |-> {},
   globals |-> <<>>,
   maxId |-> 7]

\* Stack allocations, their pointers, and instructions that fail:
\*   s = alloca {uint, uint}; *s = {7, 9}; v = *s
\*   a = alloca uint[2]; p = &a[1]; *p = id + 3; w = *p
\*   q = &a[2]; x = *q; insertvalue; r = &a[-1]; UDiv(id, 0); UDiv(id + 3, 2);
\*   UDiv(-1, 0); ret
MemoryProgram ==
  [instructions |-> <<
      Inst("Alloca", 1, <<Ty("Struct", 2)>>),
      Inst("LaneIdx", 2, <<>>),
      Inst("Store", INVALID_ID, <<Ssa(1), Cst(<<7, 9>>)>>),
      Inst("Load", 3, <<Ssa(1)>>),
      Inst("Alloca", 4, <<Ty("Array", 2)>>),
      Inst("GetElementPtr", 5, <<Ssa(4), Lit(0), Lit(1)>>),
      Inst("Add", 6, <<Ssa(2), Lit(3)>>),
      Inst("Store", INVALID_ID, <<Ssa(5), Ssa(6)>>),
      Inst("Load", 7, <<Ssa(5)>>),
      Inst("GetElementPtr", 8, <<Ssa(4), Lit(0), Lit(2)>>),
      Inst("Load", 9, <<Ssa(8)>>),
      Inst("InsertValue", 10, <<Ssa(3), Lit(1), Lit(0)>>),
      Inst("GetElementPtr", 11, <<Ssa(4), Lit(0), Lit(2^WordBits - 1)>>),
      Inst("UDiv", 12, <<Lit(0), Ssa(2), Lit(0)>>),
      Inst("UDiv", 13, <<Lit(0), Ssa(6), Lit(2)>>),
      Inst("UDiv", 14, <<Lit(0), Lit(2^WordBits - 1), Lit(0)>>),
      Inst("Ret", INVALID_ID, <<>>) >>,
   blockStart |-> <<0>>,
   divergentBlocks |-> {},
   convergentBlocks |-> <<>>,
   loopBlocks |-> {},
   nextUniformBlock |-> <<0>>,
   forwardConnections |-> {},
   globals |-> <<>>,
   maxId |-> 14]

\* Wave query on both sides of a branch that separates lane 0 from the others:
\*   B0: id = WaveGetLaneIndex(); if(id < 1) B1 else B2
\*   B1: f = WaveIsFirstLane()      B2: g = WaveIsFirstLane()
\*   B3: n = id + 1; ret
WaveProgram ==
  [instructions |-> <<
      Inst("LaneIdx", 1, <<>>),
      Inst("ULess", 2, <<Ssa(1), Lit(1)>>),
      Inst("Branch", INVALID_ID, <<Blk(1), Blk(2), Ssa(2)>>),
      Inst("WaveIsFirstLane", 3, <<Lit(0)>>),
      Inst("Branch", INVALID_ID, <<Blk(3)>>),
      Inst("WaveIsFirstLane", 4, <<Lit(0)>>),
      Inst("Branch", INVALID_ID, <<Blk(3)>>),
      Inst("Add", 5, <<Ssa(1), Lit(1)>>),
      Inst("Ret", INVALID_ID, <<>>) >>,
   blockStart |-> <<0, 3, 5, 7>>,
   divergentBlocks |-> {0},
   convergentBlocks |-> <<<<0, 3>>>>,
   loopBlocks |-> {},
   nextUniformBlock |-> <<3, 3, 3, 3>>,
   forwardConnections |-> {<<0, 1>>, <<0, 2>>, <<0, 3>>, <<1, 3>>, <<2, 3>>},
   globals |-> <<>>,
   maxId |-> 5]

\* Pixel-shader derivatives on both sides of a branch that separates lane 0 from the
\* others, then a discard of lane 0 followed by a wave reduction:
\*   B0: id = WaveGetLaneIndex(); c = id < 1; if(c) B1 else B2
\*   B1: d = ddx_coarse(id)        B2: e = ddx_coarse(id)
\*   B3: discard(c); s = WaveActiveSum(id); ret
PixelProgram ==
  [instructions |-> <<
      Inst("LaneIdx", 1, <<>>),
      Inst("ULess", 2, <<Ssa(1), Lit(1)>>),
      Inst("Branch", INVALID_ID, <<Blk(1), Blk(2), Ssa(2)>>),
      Inst("DerivCoarseX", 3, <<Lit(0), Ssa(1)>>),
      Inst("Branch", INVALID_ID, <<Blk(3)>>),
      Inst("DerivCoarseX", 4, <<Lit(0), Ssa(1)>>),
      Inst("Branch", INVALID_ID, <<Blk(3)>>),
      Inst("Discard", INVALID_ID, <<Lit(0), Ssa(2)>>),
      Inst("WaveSum", 5, <<Lit(0), Ssa(1)>>),
      Inst("Ret", INVALID_ID, <<>>) >>,
   blockStart |-> <<0, 3, 5, 7>>,
   divergentBlocks |-> {0},
   convergentBlocks |-> <<<<0, 3>>>>,
   loopBlocks |-> {},
   nextUniformBlock |-> <<3, 3, 3, 3>>,
   forwardConnections |-> {<<0, 1>>, <<0, 2>>, <<0, 3>>, <<1, 3>>, <<2, 3>>},
   globals |-> <<>>,
   maxId |-> 5]

\* the operand pairs every unordered comparison is applied to: a NaN on the left, less
ComparedPairs == << <<NaN, F(1, 0)>>, <<F(1, 0), F(1, 1)>> >>

\* the unordered comparisons, in the order the program applies them
UnorderedOps ==
  <<"FUnord", "FUnordEqual", "FUnordNotEqual", "FUnordGreater", "FUnordGreaterEqual",
    "FUnordLess", "FUnordLessEqual">>

\* Float comparisons.  n is the smallest normal float, n1 the float after n:
\*   every unordered comparison on every pair of ComparedPairs;
\*   FUnordEqual(n, n); FUnordEqual(n, NaN); FUnordGreater(n1, n); ret
CompareProgram ==
  [instructions |->
      [i \in 1..(Len(UnorderedOps) * Len(ComparedPairs)) |->
         Inst(UnorderedOps[((i - 1) \div Len(ComparedPairs)) + 1], i,
              <<Flt(ComparedPairs[((i - 1) % Len(ComparedPairs)) + 1][1]),
                Flt(ComparedPairs[((i - 1) % Len(ComparedPairs)) + 1][2])>>)]
      \o << Inst("FUnordEqual", 15, <<Flt(F(1, 0)), Flt(F(1, 0))>>),
            Inst("FUnordEqual", 16, <<Flt(F(1, 0)), Flt(NaN)>>),
            Inst("FUnordGreater", 17, <<Flt(F(1, 1)), Flt(F(1, 0))>>),
            Inst("Ret", INVALID_ID, <<>>) >>,
   blockStart |-> <<0>>,
   divergentBlocks |-> {},
   convergentBlocks |-> <<>>,
   loopBlocks |-> {},
   nextUniformBlock |-> <<0>>,
   forwardConnections |-> {},
   globals |-> <<>>,
   maxId |-> 17]

\* the ordered comparisons, in the order the program applies them
OrderedOps ==
  <<"FOrd", "FOrdEqual", "FOrdNotEqual", "FOrdGreater", "FOrdGreaterEqual", "FOrdLess",
    "FOrdLessEqual">>

\* Ordered float comparisons: every one on every pair of ComparedPairs, then
\*   FOrdNotEqual(n, NaN); FOrdNotEqual(n, n); ret
OrderedProgram ==
  [instructions |->
      [i \in 1..(Len(OrderedOps) * Len(ComparedPairs)) |->
         Inst(OrderedOps[((i - 1) \div Len(ComparedPairs)) + 1], i,
              <<Flt(ComparedPairs[((i - 1) % Len(ComparedPairs)) + 1][1]),
                Flt(ComparedPairs[((i - 1) % Len(ComparedPairs)) + 1][2])>>)]
      \o << Inst("FOrdNotEqual", 15, <<Flt(F(1, 0)), Flt(NaN)>>),
            Inst("FOrdNotEqual", 16, <<Flt(F(1, 0)), Flt(F(1, 0))>>),
            Inst("Ret", INVALID_ID, <<>>) >>,
   blockStart |-> <<0>>,
   divergentBlocks |-> {},
   convergentBlocks |-> <<>>,
   loopBlocks |-> {},
   nextUniformBlock |-> <<0>>,
   forwardConnections |-> {},
   globals |-> <<>>,
   maxId |-> 16]

\* Scalar arithmetic.  d is the smallest subnormal, n the smallest normal float, n1 the
\* float after n:
\*   a = d + n; b = n1 - n; c = b + n;
\*   s = 2 + 3; q = 7 / 0; u = 7 / 2; r = 7 % 2; m = -7 srem 2;
\*   x = 7 % 0; y = 7 srem 0; ret
ArithProgram ==
  [instructions |-> <<
      Inst("FAdd", 1, <<Flt(F(0, 1)), Flt(F(1, 0))>>),
      Inst("FSub", 2, <<Flt(F(1, 1)), Flt(F(1, 0))>>),
      Inst("FAdd", 3, <<Ssa(2), Flt(F(1, 0))>>),
      Inst("Add", 4, <<Lit(2), Lit(3)>>),
      Inst("OpUDiv", 5, <<Lit(7), Lit(0)>>),
      Inst("OpUDiv", 6, <<Lit(7), Lit(2)>>),
      Inst("URem", 7, <<Lit(7), Lit(2)>>),
      Inst("SRem", 8, <<Lit(2^WordBits - 7), Lit(2)>>),
      Inst("URem", 9, <<Lit(7), Lit(0)>>),
      Inst("SRem", 10, <<Lit(7), Lit(0)>>),
      Inst("Ret", INVALID_ID, <<>>) >>,
   blockStart |-> <<0>>,
   divergentBlocks |-> {},
   convergentBlocks |-> <<>>,
   loopBlocks |-> {},
   nextUniformBlock |-> <<0>>,
   forwardConnections |-> {},
   globals |-> <<>>,
   maxId |-> 10]

\* Wave queries and a wave reduction in straight-line code:
\*   id = WaveGetLaneIndex(); f = WaveIsFirstLane(); s = WaveActiveSum(id + 1);
\*   h = IsHelperLane(); ret
SubgroupProgram ==
  [instructions |-> <<
      Inst("LaneIdx", 1, <<>>),
      Inst("Add", 2, <<Ssa(1), Lit(1)>>),
      Inst("WaveIsFirstLane", 3, <<Lit(0)>>),
      Inst("WaveSum", 4, <<Lit(0), Ssa(2)>>),
      Inst("IsHelperLane", 5, <<Lit(0)>>),
      Inst("Ret", INVALID_ID, <<>>) >>,
   blockStart |-> <<0>>,
   divergentBlocks |-> {},
   convergentBlocks |-> <<>>,
   loopBlocks |-> {},
   nextUniformBlock |-> <<0>>,
   forwardConnections |-> {},
   globals |-> <<>>,
   maxId |-> 5]

\* Atomics on a groupshared array g and on a local array, and loads through pointers
\* to the same element:
\*   p = &g[0]; o = atomicrmw add p, 1;
\*   a = alloca [2 x i32]; q = &a[0]; r = &a[0]; *q = 5; v = *r;
\*   s = &a[1]; *s = 0x80000000; m = atomicrmw umax s, 1; x = cmpxchg s, 1, 3; w = *s; ret
AtomicProgram ==
  [instructions |-> <<
      Inst("GetElementPtr", 1, <<Gv(0), Lit(0), Lit(0)>>),
      Inst("AtomicAdd", 2, <<Ssa(1), Lit(1)>>),
      Inst("Alloca", 3, <<Ty("Array", 2)>>),
      Inst("GetElementPtr", 4, <<Ssa(3), Lit(0), Lit(0)>>),
      Inst("GetElementPtr", 5, <<Ssa(3), Lit(0), Lit(0)>>),
      Inst("Store", INVALID_ID, <<Ssa(4), Lit(5)>>),
      Inst("Load", 6, <<Ssa(5)>>),
      Inst("GetElementPtr", 7, <<Ssa(3), Lit(0), Lit(1)>>),
      Inst("Store", INVALID_ID, <<Ssa(7), Lit(2^(WordBits - 1))>>),
      Inst("AtomicUMax", 8, <<Ssa(7), Lit(1)>>),
      Inst("CompareExchange", 9, <<Ssa(7), Lit(1), Lit(3)>>),
      Inst("Load", 10, <<Ssa(7)>>),
      Inst("Ret", INVALID_ID, <<>>) >>,
   blockStart |-> <<0>>,
   divergentBlocks |-> {},
   convergentBlocks |-> <<>>,
   loopBlocks |-> {},
   nextUniformBlock |-> <<0>>,
   forwardConnections |-> {},
   globals |-> <<[id |-> 0, cells |-> 2]>>,
   maxId |-> 10]

\* a static resource reference of the program: class, name and binding of the resource
ResourceReference(resClass, name) ==
  [resClass |-> resClass, name |-> name, binding |-> <<"register", name>>]

\* Resource handles and the accesses made through them:
\*   B0: u = handle(UAV u0); t = handle(SRV t0); s = handle(sampler s0);
\*       x = handle without a resource reference; y = handle(sampler s1, not declared);
\*       h = handle from heap[0]; id = WaveGetLaneIndex();
\*       u[0] = id + 1; a = u[0]; c = t.Sample(s); b = x[0]; d = y[0]; e = h[1]
\*   B1: k = phi [h,B0]; f = k[0]; g = t.Sample(y); ret
ResourceProgram ==
  [instructions |-> <<
      Inst("CreateHandle", 1, <<Lit(0), Lit(1), Lit(0), Lit(0)>>),
      Inst("CreateHandle", 2, <<Lit(0), Lit(0), Lit(0), Lit(0)>>),
      Inst("CreateHandle", 3, <<Lit(0), Lit(3), Lit(0), Lit(0)>>),
      Inst("CreateHandle", 4, <<Lit(0), Lit(1), Lit(1), Lit(0)>>),
      Inst("CreateHandle", 5, <<Lit(0), Lit(3), Lit(1), Lit(0)>>),
      Inst("CreateHandleFromHeap", 6, <<Lit(0), Lit(0), Lit(0)>>),
      Inst("LaneIdx", 7, <<>>),
      Inst("Add", 16, <<Ssa(7), Lit(1)>>),
      Inst("BufferStore", INVALID_ID, <<Lit(0), Ssa(1), Lit(0), Lit(0), Ssa(16)>>),
      Inst("BufferLoad", 8, <<Lit(0), Ssa(1), Lit(0)>>),
      Inst("Sample", 9, <<Lit(0), Ssa(2), Ssa(3)>>),
      Inst("BufferLoad", 10, <<Lit(0), Ssa(4), Lit(0)>>),
      Inst("BufferLoad", 11, <<Lit(0), Ssa(5), Lit(0)>>),
      Inst("BufferLoad", 12, <<Lit(0), Ssa(6), Lit(1)>>),
      Inst("Branch", INVALID_ID, <<Blk(1)>>),
      Inst("Phi", 13, <<Ssa(6), Blk(0)>>),
      Inst("BufferLoad", 14, <<Lit(0), Ssa(13), Lit(0)>>),
      Inst("Sample", 15, <<Lit(0), Ssa(2), Ssa(5)>>),
      Inst("Ret", INVALID_ID, <<>>) >>,
   blockStart |-> <<0, 15>>,
   divergentBlocks |-> {},
   convergentBlocks |-> <<>>,
   loopBlocks |-> {},
   nextUniformBlock |-> <<1, 1>>,
   forwardConnections |-> {<<0, 1>>},
   globals |-> <<>>,
   resources |-> (1 :> ResourceReference("UAV", "u0")) @@ (2 :> ResourceReference("SRV", "t0"))
                 @@ (3 :> ResourceReference("Sampler", "s0"))
                 @@ (5 :> ResourceReference("Sampler", "s1")),
   maxId |-> 16]

\* trip count of the loop program: 6 instructions per trip, so the observed lane
\* needs more than one ContinueDebug call
LoopTrip == 17

ProgramNames ==
  {"Diamond", "Loop", "Shared", "Kill", "Quad", "Memory", "Wave", "Resource", "Pixel",
   "Arith", "Compare", "Subgroup", "Atomic", "Ordered"}

Ids(p) == 0..p.maxId

\* function->instructions[idx]
InstAt(p, idx) == p.instructions[idx + 1]

\* function->blocks[b]->startInstructionIdx
StartInstructionIdx(p, b) == p.blockStart[b + 1]

-----------------------------------------------------------------------------
(* Small helpers *)

Range(s) == {s[i] : i \in DOMAIN s}

Last(s) == s[Len(s)]

Min(S) == CHOOSE x \in S : \A y \in S : x <= y

RECURSIVE SortedSeq(_)
\* the elements of a finite set of numbers in increasing order
SortedSeq(S) == IF S = {} THEN <<>> ELSE <<Min(S)>> \o SortedSeq(S \ {Min(S)})

RECURSIVE SumSeq(_)
SumSeq(s) == IF s = <<>> THEN 0 ELSE Head(s) + SumSeq(Tail(s))

RECURSIVE Flatten(_)
\* concatenation of a sequence of sequences
Flatten(ss) == IF ss = <<>> THEN <<>> ELSE Head(ss) \o Flatten(Tail(ss))

-----------------------------------------------------------------------------
(* Static analysis done once by Debugger::BeginDebug *)

\* phiReferencedIdsPerBlock[blockId]: the SSA ids phi nodes name as incoming from blockId
PhiReferencedIds(p, blockId) ==
  { id \in Ids(p) :
      \E i \in DOMAIN p.instructions :
        /\ p.instructions[i].op = "Phi"
        /\ \E a \in DOMAIN p.instructions[i].args :
             /\ a % 2 = 1
             /\ p.instructions[i].args[a].k = "ssa"
             /\ p.instructions[i].args[a].v = id
             /\ p.instructions[i].args[a + 1].v = blockId }

\* info.instructionToBlock[i]
InstructionToBlock(p, i) ==
  CHOOSE b \in 0..(Len(p.blockStart) - 1) :
    /\ p.blockStart[b + 1] <= i
    /\ \A c \in 0..(Len(p.blockStart) - 1) : p.blockStart[c + 1] <= i => c <= b

\* ExecPointReference
ExecPointReference(block, instruction) == [block |-> block, instruction |-> instruction]

\* ControlFlow::GetLoopBlocks
GetLoopBlocks(p) == p.loopBlocks

\* ControlFlow::GetNextUniformBlock
GetNextUniformBlock(p, block) == p.nextUniformBlock[block + 1]

\* ControlFlow::IsForwardConnection
IsForwardConnection(p, from, to) == <<from, to>> \in p.forwardConnections

\* ExecPointReference::IsAfter
IsAfter(point, from, p) ==
  IF point.block = from.block
  THEN point.instruction > from.instruction
  ELSE IsForwardConnection(p, from.block, point.block)

\* DXIL::IsSSA for the argument kinds of the model
IsSSA(arg) == arg.k \in {"ssa", "gv"}

RECURSIVE MaxExecPoints(_, _, _)
\* the instruction walk of BeginDebug that fills info.maxExecPointPerId, from instruction i
MaxExecPoints(p, i, acc) ==
  IF i >= Len(p.instructions) THEN acc
  ELSE
    LET inst == InstAt(p, i)
        curBlock == InstructionToBlock(p, i)
        current == ExecPointReference(curBlock, i)
        acc1 == IF inst.slot # INVALID_ID /\ inst.slot \notin DOMAIN acc
                THEN [k \in (DOMAIN acc) \cup {inst.slot} |->
                        IF k = inst.slot THEN current ELSE acc[k]]
                ELSE acc
        nextUniformBlock == GetNextUniformBlock(p, curBlock)
        maxPoint == IF curBlock \in GetLoopBlocks(p)
                    THEN ExecPointReference(nextUniformBlock,
                                            StartInstructionIdx(p, nextUniformBlock) + 1)
                    ELSE ExecPointReference(curBlock, i)
        argIds == { inst.args[a].v : a \in { b \in DOMAIN inst.args : IsSSA(inst.args[b]) } }
        acc2 == [k \in (DOMAIN acc1) \cup argIds |->
                   IF k \notin argIds THEN acc1[k]
                   ELSE IF k \notin DOMAIN acc1 THEN maxPoint
                   ELSE IF IsAfter(maxPoint, acc1[k], p) THEN maxPoint
                   ELSE acc1[k]]
    IN IF inst.op = "Nop" THEN MaxExecPoints(p, i + 1, acc)
       ELSE IF inst.op = "Phi" THEN MaxExecPoints(p, i + 1, acc1)
       ELSE MaxExecPoints(p, i + 1, acc2)

\* FunctionInfo: the program with the facts BeginDebug derives from it
FunctionInfo(p) == p @@ [maxExecPointPerId |-> MaxExecPoints(p, 0, <<>>)]

DiamondInfo == FunctionInfo(DiamondProgram)

LoopInfo == FunctionInfo(LoopProgram(LoopTrip))

SharedInfo == FunctionInfo(SharedProgram)

KillInfo == FunctionInfo(KillProgram)

QuadInfo == FunctionInfo(QuadProgram)

MemoryInfo == FunctionInfo(MemoryProgram)

WaveInfo == FunctionInfo(WaveProgram)

ResourceInfo == FunctionInfo(ResourceProgram)

\* Debugger::m_Program with m_FunctionInfos
Program(name) ==
  CASE name = "Diamond" -> DiamondInfo
    [] name = "Loop" -> LoopInfo
    [] name = "Shared" -> SharedInfo
    [] name = "Kill" -> KillInfo
    [] name = "Quad" -> QuadInfo
    [] name = "Memory" -> MemoryInfo
    [] name = "Wave" -> WaveInfo
    [] name = "Resource" -> ResourceInfo
    [] name = "Pixel" -> FunctionInfo(PixelProgram)
    [] name = "Arith" -> FunctionInfo(ArithProgram)
    [] name = "Compare" -> FunctionInfo(CompareProgram)
    [] name = "Subgroup" -> FunctionInfo(SubgroupProgram)
    [] name = "Atomic" -> FunctionInfo(AtomicProgram)
    [] name = "Ordered" -> FunctionInfo(OrderedProgram)

Prog == Program(program)

\* ConvertDXILTypeToShaderVariable for an array of n uint, a struct of n uint, a uint
ConvertDXILTypeToShaderVariable(kind, n, name) ==
  CASE kind = "Array" ->
         ShaderVariable(name, 0, [i \in 1..n |-> ShaderVariable(<<i - 1>>, 0, <<>>)])
    [] kind = "Struct" ->
         TypedVariable(name, "Struct", 0, [i \in 1..n |-> ShaderVariable(<<i - 1>>, 0, <<>>)])
    [] OTHER -> ShaderVariable(name, 0, <<>>)

\* m_GlobalState.globals: one GlobalVariable per global of the program, zero-initialised
GlobalVar(g) == ConvertDXILTypeToShaderVariable("Array", g.cells, <<g.id>>)

\* m_LiveGlobals
LiveGlobals(p) == [id \in Ids(p) |-> \E i \in DOMAIN p.globals : p.globals[i].id = id]

\* malloc(byteSize): the address of a buffer of its own; owner is the lane whose
\* variant: allocations with the same id share one buffer, whichever lane made them
MallocShared(owner, allocId) == <<0, allocId>>

\* MemoryTracking allocates, -1 for the Debugger's global memory
Malloc(owner, allocId) == <<owner, allocId>>

\* MemoryTracking::AllocateMemoryForType for the globals: m_Allocations
GlobalAllocations(p) ==
  [id \in {p.globals[i].id : i \in DOMAIN p.globals} |->
     [backingMemory |-> Malloc(-1, id),
      size |-> ElemByteSize * (CHOOSE g \in Range(p.globals) : g.id = id).cells,
      global |-> TRUE]]

\* MemoryTracking::AllocateMemoryForType for the globals: the self pointer m_Pointers[allocId]
GlobalPointers(p) ==
  [id \in DOMAIN GlobalAllocations(p) |->
     [baseMemoryId |-> id, memory |-> GlobalAllocations(p)[id].backingMemory, offset |-> 0,
      size |-> GlobalAllocations(p)[id].size]]

\* memset(backingMem, 0, byteSize): a zeroed buffer of byteSize bytes, as 32-bit cells
ZeroedBuffer(byteSize) == [c \in 0..((byteSize \div ElemByteSize) - 1) |-> 0]

\* the buffers behind the global allocations
GlobalBacking(p) ==
  [a \in { GlobalAllocations(p)[id].backingMemory : id \in DOMAIN GlobalAllocations(p) } |->
     ZeroedBuffer(GlobalAllocations(p)[a[2]].size)]

-----------------------------------------------------------------------------
(* ThreadState *)

\* ThreadState::ThreadState plus the per-lane setup at the end of BeginDebug
NewThreadState(p, i) ==
  [m_WorkgroupIndex |-> i,
   m_SubgroupIdx |-> 0,
   m_Helper |-> FALSE,
   m_QuadLaneIndex |-> INVALID_ID,
   m_QuadId |-> 0,
   m_QuadNeighbours |-> [q \in 0..3 |-> INVALID_ID],
   m_Dead |-> FALSE,
   m_Ended |-> FALSE,
   m_Callstack |-> 0,
   m_Block |-> 0,
   m_PreviousBlock |-> INVALID_ID,
   m_FunctionInstructionIdx |-> 0,
   m_ActiveGlobalInstructionIdx |-> 0,
   m_Variables |-> <<>>,
   m_Assigned |-> [id \in Ids(p) |-> FALSE],
   m_Live |-> [id \in Ids(p) |-> FALSE],
   m_IsGlobal |-> [id \in Ids(p) |-> FALSE],
   m_PhiVariables |-> <<>>,
   m_Pointers |-> <<>>,
   m_Allocations |-> <<>>,
   m_DirectHeapAccessBindings |-> <<>>,
   m_accessedSRVs |-> <<>>,
   m_accessedUAVs |-> <<>>,
   m_Diverged |-> FALSE,
   m_EnteredPoints |-> <<>>,
   m_ConvergencePoint |-> INVALID_EXECUTION_POINT]

\* ThreadState::Finished
Finished(t) == t.m_Dead \/ t.m_Ended \/ t.m_Callstack = 0

\* m_Variables[id] read: the stored variable, or a default-constructed one
VarAt(t, id) == IF id \in DOMAIN t.m_Variables THEN t.m_Variables[id] ELSE EmptyVar

\* std::map assignment m[id] = v
MapSet(m, id, v) == [k \in (DOMAIN m) \cup {id} |-> IF k = id THEN v ELSE m[k]]

\* IsNopInstruction
IsNopInstruction(inst) == inst.op = "Nop"

RECURSIVE NextNonNop(_, _)
\* the do/while of StepOverNopInstructions: first index >= idx holding a non-nop
NextNonNop(p, idx) ==
  IF IsNopInstruction(InstAt(p, idx)) THEN NextNonNop(p, idx + 1) ELSE idx

\* variant: the lane is left standing on a nop
StepOverNopInstructionsSkipped(t, p) == t

\* ThreadState::StepOverNopInstructions
StepOverNopInstructions(t, p) ==
  IF t.m_Ended THEN t
  ELSE [t EXCEPT !.m_FunctionInstructionIdx = NextNonNop(p, t.m_FunctionInstructionIdx),
                 !.m_ActiveGlobalInstructionIdx = NextNonNop(p, t.m_FunctionInstructionIdx)]

\* ThreadState::EnterEntryPoint (EnterFunction, then the globals and the global memory)
EnterEntryPoint(t, p) ==
  LET entered == StepOverNopInstructions(
                   [t EXCEPT !.m_FunctionInstructionIdx = 0,
                             !.m_Live = LiveGlobals(p),
                             !.m_IsGlobal = LiveGlobals(p),
                             !.m_Block = 0,
                             !.m_PreviousBlock = INVALID_ID,
                             !.m_PhiVariables = <<>>,
                             !.m_ActiveGlobalInstructionIdx = 0,
                             !.m_Callstack = @ + 1], p)
  IN [entered EXCEPT
        !.m_Variables = [id \in (DOMAIN t.m_Variables) \cup DOMAIN GlobalAllocations(p) |->
                           IF id \in DOMAIN GlobalAllocations(p)
                           THEN GlobalVar(CHOOSE g \in Range(p.globals) : g.id = id)
                           ELSE t.m_Variables[id]],
        !.m_Assigned = [id \in Ids(p) |-> t.m_Assigned[id] \/ id \in DOMAIN GlobalAllocations(p)],
        !.m_Pointers = GlobalPointers(p),
        !.m_Allocations = GlobalAllocations(p)]

\* variant: no convergence point is ever found
ConvergencePointMissing(p, previousBlock) == INVALID_EXECUTION_POINT

\* the convergentBlocks scan of JumpToBlock: first pair whose first is the previous block
ConvergencePointOf(p, previousBlock) ==
  LET hits == { i \in DOMAIN p.convergentBlocks : p.convergentBlocks[i][1] = previousBlock }
  IN IF hits = {} THEN INVALID_EXECUTION_POINT ELSE p.convergentBlocks[Min(hits)][2]

\* variant: a diverging lane names the block it jumps to as its convergence point
JumpToBlockOwnTarget(t, p, target, divergencePoint) ==
  [t EXCEPT !.m_PreviousBlock = t.m_Block,
            !.m_PhiVariables = [id \in PhiReferencedIds(p, t.m_Block) |-> VarAt(t, id)],
            !.m_Block = target,
            !.m_FunctionInstructionIdx = StartInstructionIdx(p, target),
            !.m_EnteredPoints = Append(@, target),
            !.m_Diverged = IF divergencePoint THEN TRUE ELSE @,
            !.m_ConvergencePoint = IF divergencePoint THEN target ELSE @]

\* ThreadState::JumpToBlock
JumpToBlock(t, p, target, divergencePoint) ==
  LET phiIds == PhiReferencedIds(p, t.m_Block)
      snap == [id \in phiIds |-> VarAt(t, id)]
      \* m_Variables[id] inserts a default entry for an id never written
      vars1 == [id \in (DOMAIN t.m_Variables) \cup phiIds |-> VarAt(t, id)]
      t1 == [t EXCEPT !.m_PreviousBlock = t.m_Block,
                      !.m_PhiVariables = snap,
                      !.m_Variables = vars1]
  IN IF target < Len(p.blockStart)
     THEN [t1 EXCEPT !.m_Block = target,
                     !.m_FunctionInstructionIdx = StartInstructionIdx(p, target),
                     !.m_EnteredPoints = Append(@, target),
                     !.m_Diverged = IF divergencePoint THEN TRUE ELSE @,
                     !.m_ConvergencePoint =
                        IF divergencePoint THEN ConvergencePointOf(p, t.m_Block) ELSE @]
     ELSE t1

-----------------------------------------------------------------------------
(* Operand access *)

\* GetSSAId(arg)
GetSSAId(arg) == IF arg.k \in {"ssa", "gv"} THEN arg.v ELSE INVALID_ID

\* ThreadState::IsVariableAssigned
IsVariableAssigned(t, id) == IF id \in DOMAIN t.m_Assigned THEN t.m_Assigned[id] ELSE FALSE

\* ThreadState::GetLiveVariable: the lane's current table entry
GetLiveVariable(t, id) == VarAt(t, id)

\* variant: the phi operand is read from the live table
GetPhiVariableLive(t, id) == VarAt(t, id)

\* ThreadState::GetPhiVariable: the entry captured by the last JumpToBlock
GetPhiVariable(t, id) ==
  IF id \in DOMAIN t.m_PhiVariables THEN t.m_PhiVariables[id] ELSE EmptyVar

\* ThreadState::GetShaderVariableHelper
GetShaderVariableHelper(t, arg, isLive) ==
  CASE arg.k = "lit" -> ShaderVariable(<<>>, arg.v, <<>>)
    [] arg.k = "gv" -> ShaderVariable(<<>>, 0, <<>>)
    [] arg.k = "cst" ->
         TypedVariable(<<>>, "Struct", 0,
                       [i \in DOMAIN arg.v |-> ShaderVariable(<<i - 1>>, arg.v[i], <<>>)])
    [] arg.k = "ssa" -> IF isLive THEN GetLiveVariable(t, arg.v) ELSE GetPhiVariable(t, arg.v)
    [] OTHER -> EmptyVar

\* ThreadState::GetShaderVariable
GetShaderVariable(t, arg) == GetShaderVariableHelper(t, arg, TRUE)

\* ThreadState::GetPhiShaderVariable
GetPhiShaderVariable(t, arg) == GetShaderVariableHelper(t, arg, FALSE)

\* ThreadState::GetSubgroupActiveLanes
GetSubgroupActiveLanes(t, activeMask, workgroup, subgroupSize) ==
  LET firstLaneInSub == t.m_WorkgroupIndex - t.m_SubgroupIdx
      picked == { lane \in firstLaneInSub..(firstLaneInSub + subgroupSize - 1) :
                    /\ lane \in DOMAIN activeMask
                    /\ activeMask[lane]
                    /\ ~workgroup[lane - firstLaneInSub].m_Helper }
  IN [i \in 1..Cardinality(picked) |-> SortedSeq(picked)[i] - firstLaneInSub]

-----------------------------------------------------------------------------
(* Memory *)

\* element of the backing buffer a byte offset falls in
CellOf(offset) == offset \div ElemByteSize

\* ThreadState::UpdateBackingMemoryFromVariable: memcpy of a scalar, or of the members
\* of an aggregate of 32-bit scalars one after the other, to ptr.memory + ptr.offset
UpdateBackingMemoryFromVariable(hp, ptr, var) ==
  LET leaves == IF var.members = <<>> THEN <<var>> ELSE var.members
      first == CellOf(ptr.offset)
      buf == hp[ptr.memory]
  IN [hp EXCEPT ![ptr.memory] =
        [c \in DOMAIN buf |-> IF (c - first) + 1 \in DOMAIN leaves
                              THEN leaves[(c - first) + 1].value
                              ELSE buf[c]]]

\* ThreadState::UpdateMemoryVariableFromBackingMemory: elementSize bytes are copied to
\* the variable, or to each member in turn, elementSize being that of the variable's type
UpdateMemoryVariableFromBackingMemory(t, hp, memoryId, backingMemory) ==
  LET baseMemory == VarAt(t, memoryId)
      elementSize == GetElementByteSize(baseMemory.type)
      buf == hp[backingMemory]
      updated == IF elementSize = 0 THEN baseMemory
                 ELSE IF baseMemory.members = <<>>
                 THEN [baseMemory EXCEPT !.value = buf[0]]
                 ELSE [baseMemory EXCEPT !.members =
                          [i \in DOMAIN baseMemory.members |->
                             [baseMemory.members[i] EXCEPT
                                !.value = buf[CellOf((i - 1) * elementSize)]]]]
  IN [t EXCEPT !.m_Variables = MapSet(@, memoryId, updated)]

-----------------------------------------------------------------------------
(* ThreadState::ExecuteInstruction, one operator per opcode.  Each yields     *)
(* [t, heap, st, result, resultId, early, err, fault, flags]: the lane, the     *)
(* heap, the ShaderDebugState being filled (used when the lane is observed),   *)
(* the result variable, the id it is committed to, whether the case returned   *)
(* early, whether an error was logged, whether the process stopped, and the    *)
(* eventFlags of the instruction.                                              *)

Outcome(t, hp, st, result, resultId, early) ==
  [t |-> t, heap |-> hp, st |-> st, result |-> result, resultId |-> resultId, early |-> early,
   err |-> FALSE, fault |-> FALSE, flags |-> {}]

\* RDCERR(...) was reached on the way to the outcome
Logged(o) == [o EXCEPT !.err = TRUE]

\* what a read outside any object may do: deliver some word, or end the process
Undefined == { [fault |-> FALSE, value |-> 0], [fault |-> FALSE, value |-> 1],
               [fault |-> TRUE, value |-> 0] }

\* the "sensible defaults" result: named after the instruction's slot, zero value
DefaultResult(inst) ==
  ShaderVariable(IF inst.slot = INVALID_ID THEN <<>> ELSE <<inst.slot>>, 0, <<>>)

\* DXOp::WaveGetLaneIndex
ExecLaneIdx(t, inst, hp, st) ==
  Outcome(t, hp, st, [DefaultResult(inst) EXCEPT !.value = t.m_SubgroupIdx], inst.slot, FALSE)

\* Operation::Add
ExecAdd(t, inst, hp, st) ==
  LET a == GetShaderVariable(t, inst.args[1])
      b == GetShaderVariable(t, inst.args[2])
  IN Outcome(t, hp, st, [DefaultResult(inst) EXCEPT !.value = U32(a.value + b.value)],
             inst.slot, FALSE)

\* Operation::ULess
ExecULess(t, inst, hp, st) ==
  LET a == GetShaderVariable(t, inst.args[1])
      b == GetShaderVariable(t, inst.args[2])
  IN Outcome(t, hp, st,
             [DefaultResult(inst) EXCEPT !.value = IF a.value < b.value THEN 1 ELSE 0],
             inst.slot, FALSE)

\* variant: the other lanes are asked for the instruction's own result
CrossLaneResult(inst) == Ssa(inst.slot)

\* the operand every participating lane is asked for by a cross-lane DXOp: inst.args[1],
\* the argument after the DXOp code
CrossLaneOperand(inst) == inst.args[2]

\* DXOp::WaveActiveOp with WaveOpCode::Sum
ExecWaveSum(t, inst, hp, st, workgroup, activeMask, subgroupSize) ==
  LET activeLanes == GetSubgroupActiveLanes(t, activeMask, workgroup, subgroupSize)
      accum == GetShaderVariable(t, inst.args[2])
      xs == [i \in DOMAIN activeLanes |->
               GetShaderVariable(workgroup[activeLanes[i]], CrossLaneOperand(inst)).value]
  IN Outcome(t, hp, st,
             [accum EXCEPT !.value = U32(SumSeq(xs)), !.name = DefaultResult(inst).name],
             inst.slot, FALSE)

\* the lane QuadReadLaneAt reads: m_QuadNeighbours[min(quadLane, 3)], itself when unknown
QuadReadLane(t, quadLane) ==
  LET lane == t.m_QuadNeighbours[IF quadLane < 3 THEN quadLane ELSE 3]
  IN IF lane = INVALID_ID THEN t.m_WorkgroupIndex ELSE lane

\* DXOp::QuadReadLaneAt(value, quadLane)
ExecQuadReadLaneAt(t, inst, hp, st, workgroup) ==
  LET b == GetShaderVariable(t, inst.args[3])
      lane == QuadReadLane(t, b.value)
  IN IF lane \in DOMAIN workgroup
     THEN Outcome(t, hp, st,
                  [DefaultResult(inst) EXCEPT
                     !.value = GetShaderVariable(workgroup[lane], CrossLaneOperand(inst)).value],
                  inst.slot, FALSE)
     ELSE Outcome(t, hp, st, DefaultResult(inst), inst.slot, FALSE)

\* ThreadState::Sub, the VarType::UInt branch
Sub(a, b) == U32(a.value - b.value)

\* variant: the difference is taken the other way round
DDXSwapped(t, fine, workgroup, operand) ==
  LET quadIndex == t.m_QuadLaneIndex
      index == IF ~fine THEN 0
               ELSE IF quadIndex % 2 = 0 THEN quadIndex ELSE quadIndex - 1
      a == GetShaderVariable(workgroup[t.m_QuadNeighbours[index + 1]], operand)
      b == GetShaderVariable(workgroup[t.m_QuadNeighbours[index]], operand)
  IN IF \E q \in 0..3 : t.m_QuadNeighbours[q] = INVALID_ID
     THEN 0
     ELSE Sub(b, a)

\* ThreadState::DDX
DDX(t, fine, workgroup, operand) ==
  LET quadIndex == t.m_QuadLaneIndex
      index == IF ~fine THEN 0
               ELSE IF quadIndex % 2 = 0 THEN quadIndex ELSE quadIndex - 1
      a == GetShaderVariable(workgroup[t.m_QuadNeighbours[index + 1]], operand)
      b == GetShaderVariable(workgroup[t.m_QuadNeighbours[index]], operand)
  IN IF \E q \in 0..3 : t.m_QuadNeighbours[q] = INVALID_ID
     THEN 0
     ELSE Sub(a, b)

\* Debugger::m_Stage / ThreadState::m_ShaderType
m_Stage == "Pixel"

\* DXOp::DerivCoarseX
ExecDerivCoarseX(t, inst, hp, st, workgroup) ==
  IF m_Stage # "Pixel" \/ Cardinality(DOMAIN workgroup) # 4
  THEN Outcome(t, hp, st, DefaultResult(inst), inst.slot, FALSE)
  ELSE Outcome(t, hp, st,
               [DefaultResult(inst) EXCEPT !.value = DDX(t, FALSE, workgroup, CrossLaneOperand(inst))],
               inst.slot, FALSE)

\* Operation::Branch
ExecBranch(t, inst, hp, st, obs, p) ==
  LET conditional == Len(inst.args) > 1
      divergencePoint == conditional /\ inst.args[1].v # inst.args[2].v
      cond == GetShaderVariable(t, inst.args[3])
      targetArg == IF conditional /\ cond.value = 0 THEN 2 ELSE 1
      target == inst.args[targetArg].v
      t1 == JumpToBlock(t, p, target, divergencePoint)
      st1 == IF obs /\ ~t.m_Ended /\ target < Len(p.blockStart)
             THEN [st EXCEPT !.nextInstruction = t1.m_FunctionInstructionIdx]
             ELSE st
  IN Outcome(t1, hp, st1, DefaultResult(inst), inst.slot, FALSE)

\* variant: the first incoming value is taken whatever the previous block
PhiSelectFirst(t, inst) == 1

\* the Phi argument scan: index of the value paired with m_PreviousBlock, 0 when none
PhiSelect(t, inst) ==
  LET hits == { a \in DOMAIN inst.args : a % 2 = 1 /\ inst.args[a + 1].v = t.m_PreviousBlock }
  IN IF hits = {} THEN 0 ELSE Min(hits)

\* Operation::Phi
ExecPhi(t, inst, hp, st) ==
  LET a == PhiSelect(t, inst)
  IN IF a # 0
     THEN Outcome(t, hp, st,
                  [GetPhiShaderVariable(t, inst.args[a]) EXCEPT !.name = DefaultResult(inst).name],
                  inst.slot, FALSE)
     ELSE Outcome(t, hp, st, DefaultResult(inst), inst.slot, FALSE)

\* Operation::Load
ExecLoad(t, inst, hp, st) ==
  LET ptrId == GetSSAId(inst.args[1])
      ptr == t.m_Pointers[ptrId]
      arg == IF t.m_Allocations[ptr.baseMemoryId].global /\ ~IsVariableAssigned(t, ptrId)
             THEN VarAt(t, ptr.baseMemoryId)
             ELSE GetShaderVariable(t, inst.args[1])
  IN IF ptrId = INVALID_ID
     THEN Outcome(t, hp, st, DefaultResult(inst), inst.slot, FALSE)
     ELSE IF ptrId \notin DOMAIN t.m_Pointers \/ ptr.baseMemoryId \notin DOMAIN t.m_Allocations
     THEN Logged(Outcome(t, hp, st, DefaultResult(inst), inst.slot, FALSE))
     ELSE Outcome(t, hp, st,
                  [DefaultResult(inst) EXCEPT !.value = arg.value, !.value1 = arg.value1],
                  inst.slot, FALSE)

\* variant: the store does not record the change of the base memory variable
ExecStoreUnrecorded(t, inst, hp, st, obs) ==
  LET ptrId == GetSSAId(inst.args[1])
      ptr == t.m_Pointers[ptrId]
      val == GetShaderVariable(t, inst.args[2])
      hp1 == UpdateBackingMemoryFromVariable(hp, ptr, val)
      t1 == UpdateMemoryVariableFromBackingMemory(t, hp1, ptr.baseMemoryId,
                                                  t.m_Allocations[ptr.baseMemoryId].backingMemory)
  IN IF ptrId = INVALID_ID
     THEN Outcome(t, hp, st, DefaultResult(inst), inst.slot, FALSE)
     ELSE IF ptrId \notin DOMAIN t.m_Pointers
     THEN Logged(Outcome(t, hp, st, DefaultResult(inst), inst.slot, FALSE))
     ELSE IF ptr.baseMemoryId \notin DOMAIN t.m_Allocations
     THEN Logged(Outcome(t, hp1, st, DefaultResult(inst), inst.slot, FALSE))
     ELSE Outcome(t1, hp1, st,
                  [VarAt(t1, ptrId) EXCEPT !.value = val.value, !.value1 = val.value1],
                  ptrId, FALSE)

\* Operation::Store
ExecStore(t, inst, hp, st, obs) ==
  LET ptrId == GetSSAId(inst.args[1])
      ptr == t.m_Pointers[ptrId]
      val == GetShaderVariable(t, inst.args[2])
      hp1 == UpdateBackingMemoryFromVariable(hp, ptr, val)
      before == VarAt(t, ptr.baseMemoryId)
      t1 == UpdateMemoryVariableFromBackingMemory(t, hp1, ptr.baseMemoryId,
                                                  t.m_Allocations[ptr.baseMemoryId].backingMemory)
      st1 == IF obs
             THEN [st EXCEPT !.changes = Append(@, Change(before, VarAt(t1, ptr.baseMemoryId)))]
             ELSE st
  IN IF ptrId = INVALID_ID
     THEN Outcome(t, hp, st, DefaultResult(inst), inst.slot, FALSE)
     ELSE IF ptrId \notin DOMAIN t.m_Pointers
     THEN Logged(Outcome(t, hp, st, DefaultResult(inst), inst.slot, FALSE))
     ELSE IF ptr.baseMemoryId \notin DOMAIN t.m_Allocations
     THEN Logged(Outcome(t, hp1, st, DefaultResult(inst), inst.slot, FALSE))
     ELSE Outcome(t1, hp1, st1,
                  [VarAt(t1, ptrId) EXCEPT !.value = val.value, !.value1 = val.value1],
                  ptrId, FALSE)

\* the atomic read-modify-write opcodes on memory
AtomicOps ==
  {"AtomicExchange", "AtomicAdd", "AtomicSub", "AtomicMax", "AtomicMin", "AtomicUMax",
   "AtomicUMin", "CompareExchange"}

\* the word an atomic opcode computes from a, the value of the pointer variable, and b,
\* the new-value operand (cmp being the comparand of CompareExchange)
AtomicValue(op, a, b, cmp) ==
  CASE op = "AtomicExchange" -> b
    [] op = "AtomicAdd" -> U32(a + b)
    [] op = "AtomicSub" -> U32(a + 2^WordBits - b)
    [] op = "AtomicMax" -> IF Signed(a) >= Signed(b) THEN a ELSE b
    [] op = "AtomicMin" -> IF Signed(a) <= Signed(b) THEN a ELSE b
    [] op = "AtomicUMax" -> IF Signed(a) >= Signed(b) THEN a ELSE b
    [] op = "AtomicUMin" -> IF a <= b THEN a ELSE b
    [] op = "CompareExchange" -> IF a = cmp THEN b ELSE a

\* Operation::AtomicExchange ... Operation::CompareExchange
ExecAtomic(t, inst, hp, st, obs) ==
  LET ptrId == GetSSAId(inst.args[1])
      ptr == t.m_Pointers[ptrId]
      a == VarAt(t, ptrId)
      b == GetShaderVariable(t, inst.args[IF inst.op = "CompareExchange" THEN 3 ELSE 2])
      cmp == GetShaderVariable(t, inst.args[2])
      res == [a EXCEPT !.value = AtomicValue(inst.op, a.value, b.value, cmp.value)]
      hp1 == UpdateBackingMemoryFromVariable(hp, ptr, res)
      t1 == UpdateMemoryVariableFromBackingMemory(t, hp1, ptr.baseMemoryId,
                                                  t.m_Allocations[ptr.baseMemoryId].backingMemory)
      t2 == [t1 EXCEPT !.m_Variables =
                MapSet(@, ptrId, [VarAt(t1, ptrId) EXCEPT !.value = res.value])]
      st1 == IF obs
             THEN [st EXCEPT !.changes =
                     @ \o << Change(a, VarAt(t1, ptr.baseMemoryId)),
                             Change(VarAt(t1, ptrId), VarAt(t2, ptrId)) >>]
             ELSE st
  IN IF ptrId = INVALID_ID
     THEN Outcome(t, hp, st, DefaultResult(inst), inst.slot, FALSE)
     ELSE IF ptrId \notin DOMAIN t.m_Pointers \/ ptr.baseMemoryId \notin DOMAIN t.m_Allocations
     THEN Logged(Outcome(t, hp, st, DefaultResult(inst), inst.slot, FALSE))
     ELSE Outcome(t2, hp1, st1, [DefaultResult(inst) EXCEPT !.value = res.value],
                  inst.slot, FALSE)

\* Operation::Alloca: m_Memory.AllocateMemoryForType(inst.type, resultId, false, result)
ExecAlloca(t, inst, hp, st) ==
  LET kind == inst.args[1].v[1]
      n == inst.args[1].v[2]
      byteSize == n * ElemByteSize
      backingMem == Malloc(t.m_WorkgroupIndex, inst.slot)
      t1 == [t EXCEPT
               !.m_Allocations = MapSet(@, inst.slot, [backingMemory |-> backingMem,
                                                       size |-> byteSize, global |-> FALSE]),
               !.m_Pointers = MapSet(@, inst.slot, [baseMemoryId |-> inst.slot,
                                                    memory |-> backingMem, offset |-> 0,
                                                    size |-> byteSize])]
  IN Outcome(t1, MapSet(hp, backingMem, ZeroedBuffer(byteSize)), st,
             ConvertDXILTypeToShaderVariable(kind, n, DefaultResult(inst).name),
             inst.slot, FALSE)

\* variant: the sum of offset and size is compared without being reduced to 64 bits
GEPInBoundsExact(offset, size, allocSize) == offset + size <= allocSize

\* the bounds test of GetElementPtr: offset + size <= allocation.size in uint64_t
GEPInBounds(offset, size, allocSize) == U64(offset + size) <= allocSize

\* Operation::GetElementPtr with a base index and one element index
ExecGetElementPtr(t, inst, hp, st, undef) ==
  LET ptrId == GetSSAId(inst.args[1])
      index == GetShaderVariable(t, inst.args[3]).value
      offset == U64(index * GetElementByteSize(VarAt(t, ptrId).type))
      size == ElemByteSize
      allocation == t.m_Allocations[ptrId]
      buf == hp[allocation.backingMemory]
      inside == CellOf(offset) \in DOMAIN buf
      t1 == [t EXCEPT !.m_Pointers =
                MapSet(@, inst.slot, [baseMemoryId |-> ptrId, memory |-> allocation.backingMemory,
                                      offset |-> offset, size |-> size])]
  IN IF ptrId = INVALID_ID
     THEN Outcome(t, hp, st, DefaultResult(inst), inst.slot, FALSE)
     ELSE IF ptrId \notin DOMAIN t.m_Variables \/ ptrId \notin DOMAIN t.m_Allocations
     THEN Logged(Outcome(t, hp, st, DefaultResult(inst), inst.slot, FALSE))
     ELSE IF GEPInBounds(offset, size, allocation.size)
     THEN [Outcome(t1, hp, st,
                   [DefaultResult(inst) EXCEPT
                      !.value = IF inside THEN buf[CellOf(offset)] ELSE undef.value],
                   inst.slot, FALSE)
             EXCEPT !.fault = ~inside /\ undef.fault]
     ELSE Logged(Outcome(t, hp, st, DefaultResult(inst), inst.slot, FALSE))

\* variant: a division by zero gives zero and raises no flag
ExecUDivZero(t, inst, hp, st) ==
  LET a == GetShaderVariable(t, inst.args[2])
      b == GetShaderVariable(t, inst.args[3])
      quot == IF b.value # 0 THEN a.value \div b.value ELSE 0
  IN Outcome(t, hp, st,
             [DefaultResult(inst) EXCEPT !.value = quot,
                                         !.value1 = U32(a.value - U32(quot * b.value))],
             inst.slot, FALSE)

\* DXOp::UDiv: destQUOT, destREM = UDiv(src0, src1)
ExecUDiv(t, inst, hp, st) ==
  LET a == GetShaderVariable(t, inst.args[2])
      b == GetShaderVariable(t, inst.args[3])
      quot == a.value \div b.value
  IN IF b.value # 0
     THEN Outcome(t, hp, st,
                  [DefaultResult(inst) EXCEPT !.value = quot,
                                              !.value1 = U32(a.value - U32(quot * b.value))],
                  inst.slot, FALSE)
     ELSE [Outcome(t, hp, st,
                   [DefaultResult(inst) EXCEPT !.value = 2^WordBits - 1,
                                               !.value1 = 2^WordBits - 1],
                   inst.slot, FALSE)
             EXCEPT !.flags = {"GeneratedNanOrInf"}]

\* DXOp::WaveIsFirstLane: activeLanes[0] is read whether or not a lane was collected
ExecWaveIsFirstLane(t, inst, hp, st, workgroup, activeMask, subgroupSize, undef) ==
  LET activeLanes == GetSubgroupActiveLanes(t, activeMask, workgroup, subgroupSize)
  IN IF DOMAIN activeLanes # {}
     THEN Outcome(t, hp, st,
                  [DefaultResult(inst) EXCEPT
                     !.value = IF t.m_WorkgroupIndex = activeLanes[1] THEN 1 ELSE 0],
                  inst.slot, FALSE)
     ELSE [Outcome(t, hp, st,
                   [DefaultResult(inst) EXCEPT
                      !.value = IF t.m_WorkgroupIndex = undef.value THEN 1 ELSE 0],
                   inst.slot, FALSE)
             EXCEPT !.fault = undef.fault]

\* DXOp::IsHelperLane
ExecIsHelperLane(t, inst, hp, st) ==
  Outcome(t, hp, st, [DefaultResult(inst) EXCEPT !.value = IF t.m_Helper THEN 0 ELSE 1],
          inst.slot, FALSE)

\* Operation::AddrSpaceCast, Operation::InsertValue: "Unhandled LLVM opcode"
ExecUnhandled(t, inst, hp, st) ==
  Logged(Outcome(t, hp, st, DefaultResult(inst), inst.slot, FALSE))

\* the outcome with the GlobalState the instruction left
WithGlobalState(o, gs) == [gs |-> gs] @@ o

\* the outcome with the record of the handle resolutions the instruction made
WithResolutions(o, res) == [res |-> res] @@ o

\* a resource variable of one of GlobalState's lists
ResourceVariable(name, type) == TypedVariable(<<name>>, type, 0, <<>>)

\* GlobalState as BeginDebug leaves it: the declared resources and samplers, and no
\* view data fetched yet
GlobalStateInit ==
  [readOnlyResources |-> << ResourceVariable("t0", "ReadOnlyResource") >>,
   readWriteResources |-> << ResourceVariable("u0", "ReadWriteResource") >>,
   samplers |-> << ResourceVariable("s0", "Sampler") >>,
   srvs |-> <<>>,
   uavs |-> <<>>]

\* number of elements of a fetched buffer view
ViewElements == 2

\* GlobalState::UAVData / SRVData of a bound buffer as the API wrapper delivers it
FetchedView == [data |-> [e \in 0..(ViewElements - 1) |-> 0], numElements |-> ViewElements]

\* apiWrapper->FetchUAV(binding): the view's data is added to m_GlobalState.uavs
FetchUAV(gs, binding) == [gs EXCEPT !.uavs = MapSet(@, binding, FetchedView)]

\* apiWrapper->FetchSRV(binding): the view's data is added to m_GlobalState.srvs
FetchSRV(gs, binding) == [gs EXCEPT !.srvs = MapSet(@, binding, FetchedView)]

\* no ResourceReference (NULL)
NullReference == ResourceReference("Invalid", "")

\* m_Program.GetResourceReference(handleId)
GetResourceReference(p, handleId) ==
  IF "resources" \in DOMAIN p /\ handleId \in DOMAIN p.resources
  THEN p.resources[handleId]
  ELSE NullReference

\* DescriptorCategory of a resource class
CategoryOf(resClass) ==
  CASE resClass = "SRV" -> "ReadOnlyResource"
    [] resClass = "UAV" -> "ReadWriteResource"
    [] resClass = "Sampler" -> "Sampler"
    [] resClass = "CBuffer" -> "ConstantBlock"
    [] OTHER -> "Unknown"

\* ResourceReferenceInfo(): the default, for which Valid() is false
InvalidInfo ==
  [valid |-> FALSE, resClass |-> "Invalid", binding |-> <<"register", "">>, category |-> "Unknown"]

\* ResourceReferenceInfo::Create(resRef, arrayElement)
CreateInfo(resRef) ==
  [valid |-> TRUE, resClass |-> resRef.resClass, binding |-> resRef.binding,
   category |-> CategoryOf(resRef.resClass)]

\* apiWrapper->GetResourceReferenceInfo(slot) for a CBV_SRV_UAV heap slot holding a UAV
GetResourceReferenceInfo(descriptorIndex) ==
  [valid |-> TRUE, resClass |-> "UAV", binding |-> <<"heap", "0">>,
   category |-> "ReadWriteResource"]

\* variant: the access is recorded for every category of descriptor
MarkResourceAccessAny(t, st, obs, name, resRefInfo, directAccess) ==
  LET after == [TypedVariable(name, resRefInfo.category, 0, <<>>) EXCEPT !.direct = directAccess]
  IN IF ~obs
     THEN [t |-> t, st |-> st]
     ELSE [t |-> t, st |-> [st EXCEPT !.changes = Append(@, Change(EmptyVar, after))]]

\* ThreadState::MarkResourceAccess
MarkResourceAccess(t, st, obs, name, resRefInfo, directAccess) ==
  LET isSRV == resRefInfo.category = "ReadOnlyResource"
      accessed == IF isSRV THEN t.m_accessedSRVs ELSE t.m_accessedUAVs
      after == [TypedVariable(name, resRefInfo.category, 0, <<>>) EXCEPT !.direct = directAccess]
      found == \E i \in DOMAIN accessed : accessed[i] = resRefInfo.binding
      before == IF found THEN after ELSE EmptyVar
      t1 == IF found THEN t
            ELSE IF isSRV THEN [t EXCEPT !.m_accessedSRVs = Append(@, resRefInfo.binding)]
            ELSE [t EXCEPT !.m_accessedUAVs = Append(@, resRefInfo.binding)]
  IN IF ~obs
     THEN [t |-> t, st |-> st]
     ELSE IF resRefInfo.category \notin {"ReadOnlyResource", "ReadWriteResource"}
     THEN [t |-> t, st |-> st]
     ELSE [t |-> t1, st |-> [st EXCEPT !.changes = Append(@, Change(before, after))]]

\* variant: the access is recorded before the handle is looked up
GetResourceMarkFirst(t, st, obs, p, handleId) ==
  LET found == handleId \in DOMAIN t.m_Variables
      var == t.m_Variables[handleId]
      directAccess == var.direct
      resRef == GetResourceReference(p, handleId)
      hasBinding == handleId \in DOMAIN t.m_DirectHeapAccessBindings
      resRefInfo == IF directAccess THEN t.m_DirectHeapAccessBindings[handleId]
                    ELSE CreateInfo(resRef)
      marked == MarkResourceAccess(t, st, obs, var.name, resRefInfo, directAccess)
      early == MarkResourceAccess(t, st, obs, <<handleId>>,
                                  [InvalidInfo EXCEPT !.category = "ReadWriteResource"], FALSE)
      failed == [info |-> InvalidInfo, t |-> early.t, st |-> early.st, err |-> TRUE]
  IN IF ~found THEN failed
     ELSE IF ~directAccess /\ resRef = NullReference THEN failed
     ELSE IF directAccess /\ ~hasBinding THEN failed
     ELSE [info |-> resRefInfo, t |-> marked.t, st |-> marked.st, err |-> FALSE]

\* ThreadState::GetResource: the info, and the lane and step state after the call
GetResource(t, st, obs, p, handleId) ==
  LET found == handleId \in DOMAIN t.m_Variables
      var == t.m_Variables[handleId]
      directAccess == var.direct
      resRef == GetResourceReference(p, handleId)
      hasBinding == handleId \in DOMAIN t.m_DirectHeapAccessBindings
      resRefInfo == IF directAccess THEN t.m_DirectHeapAccessBindings[handleId]
                    ELSE CreateInfo(resRef)
      marked == MarkResourceAccess(t, st, obs, var.name, resRefInfo, directAccess)
      failed == [info |-> InvalidInfo, t |-> t, st |-> st, err |-> TRUE]
  IN IF ~found THEN failed
     ELSE IF ~directAccess /\ resRef = NullReference THEN failed
     ELSE IF directAccess /\ ~hasBinding THEN failed
     ELSE [info |-> resRefInfo, t |-> marked.t, st |-> marked.st, err |-> FALSE]

\* what one GetResource call found and did, for the properties
Resolution(t, st, obs, p, handleId, g) ==
  LET assigned == handleId \in DOMAIN t.m_Variables
      direct == assigned /\ t.m_Variables[handleId].direct
      accessed == IF g.info.category = "ReadOnlyResource" THEN t.m_accessedSRVs
                  ELSE t.m_accessedUAVs
  IN [handle |-> handleId,
      lane |-> t.m_WorkgroupIndex,
      observed |-> obs,
      assigned |-> assigned,
      direct |-> direct,
      hasReference |-> handleId \in DOMAIN p.resources,
      hasBinding |-> handleId \in DOMAIN t.m_DirectHeapAccessBindings,
      info |-> g.info,
      first |-> ~\E i \in DOMAIN accessed : accessed[i] = g.info.binding,
      records |-> SubSeq(g.st.changes, Len(st.changes) + 1, Len(g.st.changes))]

\* DXOp::CreateHandle
ExecCreateHandle(t, inst, hp, st, p, gs) ==
  LET resRef == GetResourceReference(p, inst.slot)
      list == CASE resRef.resClass = "SRV" -> gs.readOnlyResources
                [] resRef.resClass = "UAV" -> gs.readWriteResources
                [] resRef.resClass = "Sampler" -> gs.samplers
                [] OTHER -> <<>>
      matches == { i \in DOMAIN list : list[i].name = <<resRef.name>> }
      arrayIndex == GetShaderVariable(t, inst.args[4]).value
  IN IF resRef = NullReference
     THEN Logged(Outcome(t, hp, st, DefaultResult(inst), inst.slot, FALSE))
     ELSE IF matches # {}
     THEN Outcome(t, hp, st, list[Min(matches)], inst.slot, FALSE)
     ELSE IF resRef.resClass \in {"SRV", "UAV"}
     THEN Outcome(t, hp, st,
                  TypedVariable(<<resRef.name, arrayIndex>>, CategoryOf(resRef.resClass), 0, <<>>),
                  inst.slot, FALSE)
     ELSE Logged(Outcome(t, hp, st, [DefaultResult(inst) EXCEPT !.name = <<>>], inst.slot, FALSE))

\* DXOp::CreateHandleFromHeap
ExecCreateHandleFromHeap(t, inst, hp, st) ==
  LET descriptorIndex == GetShaderVariable(t, inst.args[2]).value
      resRefInfo == GetResourceReferenceInfo(descriptorIndex)
      t1 == [t EXCEPT !.m_DirectHeapAccessBindings = MapSet(@, inst.slot, resRefInfo)]
  IN Outcome(t1, hp, st,
             [TypedVariable(DefaultResult(inst).name, resRefInfo.category, 0, <<>>)
                EXCEPT !.direct = TRUE],
             inst.slot, FALSE)

\* DXOp::BufferLoad and DXOp::BufferStore on a buffer view
ExecBufferAccess(t, inst, hp, st, obs, p, gs) ==
  LET load == inst.op = "BufferLoad"
      handleId == GetSSAId(inst.args[2])
      g == GetResource(t, st, obs, p, handleId)
      res == << Resolution(t, st, obs, p, handleId, g) >>
      binding == g.info.binding
      uav == g.info.resClass = "UAV"
      views == IF uav THEN gs.uavs ELSE gs.srvs
      gs1 == IF binding \in DOMAIN views THEN gs
             ELSE IF uav THEN FetchUAV(gs, binding) ELSE FetchSRV(gs, binding)
      view == IF uav THEN gs1.uavs[binding] ELSE gs1.srvs[binding]
      elemIdx == GetShaderVariable(t, inst.args[3]).value
      value == IF load THEN view.data[elemIdx] ELSE GetShaderVariable(t, inst.args[5]).value
      gs2 == IF load THEN gs1 ELSE [gs1 EXCEPT !.uavs[binding].data[elemIdx] = value]
  IN IF ~g.info.valid
     THEN WithResolutions(Logged(Outcome(g.t, hp, g.st, DefaultResult(inst), inst.slot, FALSE)),
                          res)
     ELSE IF view.data = <<>> \/ elemIdx >= view.numElements
     THEN WithResolutions(
            WithGlobalState(Outcome(g.t, hp, g.st, DefaultResult(inst), inst.slot, FALSE), gs1),
            res)
     ELSE WithResolutions(
            WithGlobalState(Outcome(g.t, hp, g.st, [DefaultResult(inst) EXCEPT !.value = value],
                                    inst.slot, FALSE),
                            gs2),
            res)

\* DXOp::Sample: the texture handle, then PerformGPUResourceOp resolving the sampler;
\* the sampled value is the API wrapper's and is left zero here
ExecSample(t, inst, hp, st, obs, p) ==
  LET handleId == GetSSAId(inst.args[2])
      samplerId == GetSSAId(inst.args[3])
      g == GetResource(t, st, obs, p, handleId)
      samplerRef == GetResource(g.t, g.st, obs, p, samplerId)
      res == << Resolution(t, st, obs, p, handleId, g) >>
      res2 == Append(res, Resolution(g.t, g.st, obs, p, samplerId, samplerRef))
  IN IF ~g.info.valid
     THEN WithResolutions(Logged(Outcome(g.t, hp, g.st, DefaultResult(inst), inst.slot, FALSE)),
                          res)
     ELSE IF ~samplerRef.info.valid
     THEN WithResolutions(
            [Logged(Outcome(samplerRef.t, hp, samplerRef.st, DefaultResult(inst), inst.slot, FALSE))
               EXCEPT !.flags = {"SampleLoadGather"}],
            res2)
     ELSE WithResolutions(
            [Outcome(samplerRef.t, hp, samplerRef.st, DefaultResult(inst), inst.slot, FALSE)
               EXCEPT !.flags = {"SampleLoadGather"}],
            res2)

\* the comparisons of OperationFlushing's "Float mathematical operations" group
FloatComparisons ==
  {"FUnord", "FUnordEqual", "FUnordNotEqual", "FUnordGreater", "FUnordGreaterEqual",
   "FUnordLess", "FUnordLessEqual", "FOrd", "FOrdEqual", "FOrdNotEqual", "FOrdGreater",
   "FOrdGreaterEqual", "FOrdLess", "FOrdLessEqual"}

\* variant: no operation flushes
OperationFlushingNever(op) == FALSE

\* OperationFlushing: float arithmetic, float comparisons and sampling flush denorms;
\* casts, integer and non-arithmetic operations do not
OperationFlushing(op) == op \in {"FAdd", "FSub", "Sample"} \cup FloatComparisons

\* ThreadState::GetVariableHelper, and the isShaderVal branch of GetShaderVariableHelper:
\* the first component is flushed for a flushing operation
GetVariableHelper(op, var) ==
  IF OperationFlushing(op) /\ var.type \notin {"Double", "Half"}
  THEN [var EXCEPT !.value = flush_denorm(@)]
  ELSE var

\* GetShaderVariable(value, opCode, dxOpCode, var) of a float operand
GetFloatVariable(t, op, arg) ==
  IF arg.k = "flt"
  THEN GetVariableHelper(op, TypedVariable(<<>>, "Float", arg.v, <<>>))
  ELSE IF arg.k = "ssa" THEN GetVariableHelper(op, GetShaderVariable(t, arg))
  ELSE GetShaderVariable(t, arg)

\* Operation::FAdd, Operation::FSub
ExecFloatArith(t, inst, hp, st) ==
  LET a == GetFloatVariable(t, inst.op, inst.args[1])
      b == GetFloatVariable(t, inst.op, inst.args[2])
      units == IF inst.op = "FAdd" THEN FloatUnits(a.value) + FloatUnits(b.value)
               ELSE FloatUnits(a.value) - FloatUnits(b.value)
  IN Outcome(t, hp, st,
             TypedVariable(DefaultResult(inst).name, "Float", FromUnits(units), <<>>),
             inst.slot, FALSE)

\* Operation::FOrd.., Operation::FUnord..: the comparison as written in the source, each
\* FUnord one as the negation of the opposite host comparison
ExecFloatCompare(t, inst, hp, st) ==
  LET a == GetFloatVariable(t, inst.op, inst.args[1]).value
      b == GetFloatVariable(t, inst.op, inst.args[2]).value
      r == CASE inst.op = "FOrdEqual" -> FloatCmp("==", a, b)
             [] inst.op = "FOrdLess" -> FloatCmp("<", a, b)
             [] inst.op = "FOrdGreater" -> FloatCmp(">", a, b)
             [] inst.op = "FOrdGreaterEqual" -> FloatCmp(">=", a, b)
             [] inst.op = "FOrdLessEqual" -> FloatCmp("<=", a, b)
             [] inst.op = "FOrdNotEqual" -> FloatCmp("!=", a, b)
             [] inst.op = "FOrd" -> ~IsNaN(a) /\ ~IsNaN(b)
             [] inst.op = "FUnord" -> IsNaN(a) \/ IsNaN(b)
             [] inst.op = "FUnordEqual" -> ~FloatCmp("!=", a, b)
             [] inst.op = "FUnordGreater" -> ~FloatCmp("<=", a, b)
             [] inst.op = "FUnordGreaterEqual" -> ~FloatCmp("<", a, b)
             [] inst.op = "FUnordLess" -> ~FloatCmp(">=", a, b)
             [] inst.op = "FUnordLessEqual" -> ~FloatCmp(">", a, b)
             [] inst.op = "FUnordNotEqual" -> ~FloatCmp("==", a, b)
  IN Outcome(t, hp, st,
             TypedVariable(DefaultResult(inst).name, "Bool", IF r THEN 1 ELSE 0, <<>>),
             inst.slot, FALSE)

\* the host's signed remainder, which has the sign of the dividend
SignedRem(a, b) ==
  LET ma == IF a < 0 THEN 0 - a ELSE a
      mb == IF b < 0 THEN 0 - b ELSE b
  IN IF a < 0 THEN 0 - (ma % mb) ELSE ma % mb

\* Operation::UDiv, Operation::URem, Operation::SRem.  UDiv tests the divisor; the
\* remainders are computed by the host's % whatever the divisor, which is undefined
\* for a zero divisor (and for the most negative dividend with divisor -1)
ExecIntArith(t, inst, hp, st, undef) ==
  LET a == GetShaderVariable(t, inst.args[1]).value
      b == GetShaderVariable(t, inst.args[2]).value
      defined == /\ b # 0
                 /\ ~(inst.op = "SRem" /\ Signed(a) = 0 - 2^(WordBits - 1) /\ Signed(b) = 0 - 1)
      value == CASE inst.op = "OpUDiv" -> IF b # 0 THEN a \div b ELSE 0
                 [] inst.op = "URem" -> IF defined THEN a % b ELSE undef.value
                 [] inst.op = "SRem" ->
                      IF defined THEN U32(SignedRem(Signed(a), Signed(b))) ELSE undef.value
  IN [Outcome(t, hp, st, [DefaultResult(inst) EXCEPT !.value = value], inst.slot, FALSE)
        EXCEPT !.flags = IF inst.op = "OpUDiv" /\ b = 0 THEN {"GeneratedNanOrInf"} ELSE {},
               !.fault = inst.op # "OpUDiv" /\ ~defined /\ undef.fault]

\* ThreadState::QuadIsDiverged: the quad neighbours that have not finished are not all
\* in the same block at the same instruction
QuadIsDiverged(workgroup, quadNeighbours) ==
  LET running == { quadNeighbours[q] : q \in DOMAIN quadNeighbours } \ {INVALID_ID}
      live == { i \in running : ~Finished(workgroup[i]) }
  IN \E i, j \in live :
        \/ workgroup[i].m_Block # workgroup[j].m_Block
        \/ workgroup[i].m_ActiveGlobalInstructionIdx # workgroup[j].m_ActiveGlobalInstructionIdx

\* DXOp::Discard: with a true condition the lane that has a debug state (m_State, the
\* observed lane) is made dead and the case returns; any other lane carries on unchanged
ExecDiscard(t, inst, hp, st, obs) ==
  LET cond == GetShaderVariable(t, inst.args[2])
  IN IF cond.value # 0 /\ obs
     THEN Outcome([t EXCEPT !.m_Dead = TRUE], hp, st, DefaultResult(inst), inst.slot, TRUE)
     ELSE Outcome(t, hp, st, DefaultResult(inst), inst.slot, FALSE)

\* Operation::Ret
ExecRet(t, inst, hp, st) ==
  Outcome([t EXCEPT !.m_Ended = TRUE], hp, st, DefaultResult(inst), inst.slot, FALSE)

\* variant: Unreachable returns without marking the lane dead
ExecUnreachableAlive(t, inst, hp, st) ==
  Outcome(t, hp, st, DefaultResult(inst), inst.slot, TRUE)

\* Operation::Unreachable: the lane dies and the case returns before the result commit
ExecUnreachable(t, inst, hp, st) ==
  Outcome([t EXCEPT !.m_Dead = TRUE], hp, st, DefaultResult(inst), inst.slot, TRUE)

\* Operation::NoOp: "NoOp instructions should not be executed", return false
ExecNoOp(t, inst, hp, st) ==
  Outcome(t, hp, st, DefaultResult(inst), inst.slot, TRUE)

\* variant: the record's before is always the empty variable
SetResultBlankBefore(t, st, id, result, flags) ==
  [st EXCEPT !.flags = @ \cup flags,
             !.changes = Append(@, Change(EmptyVar, result))]

\* ThreadState::SetResult: the event flags and the before/after record of the result
SetResult(t, st, id, result, flags) ==
  [st EXCEPT !.flags = @ \cup flags,
             !.changes = Append(@, Change(VarAt(t, id), result))]

\* AssignValue(result, result, flushDenorm): the value SetResult leaves in result
AssignValue(result, flushDenorm) ==
  IF flushDenorm /\ result.type = "Float"
  THEN [result EXCEPT !.value = flush_denorm(@)]
  ELSE result

\* the flags AssignValue returns: a float that is not finite
AssignFlags(result) ==
  IF result.type = "Float" /\ ~IsFinite(result.value) THEN {"GeneratedNanOrInf"} ELSE {}

\* the "Update the result variable" tail of ExecuteInstruction.  SetResult is called
\* only with a debug state (the observed lane) and flushes result in place, so the
\* table receives the flushed value on that lane and the value as computed on the others
CommitResult(o, obs) ==
  IF o.early \/ o.result.name = <<>> \/ o.resultId = INVALID_ID
  THEN o
  ELSE LET result == IF obs THEN AssignValue(o.result, OperationFlushing(o.op))
                     ELSE o.result
       IN [o EXCEPT
             !.st = IF obs
                    THEN SetResult(o.t, o.st, o.resultId, result,
                                   o.flags \cup AssignFlags(o.result))
                    ELSE @,
             !.result = result,
             !.t = [o.t EXCEPT !.m_Live[o.resultId] = TRUE,
                               !.m_Variables = MapSet(@, o.resultId, result),
                               !.m_Assigned[o.resultId] = TRUE]]

\* ThreadState::ExecuteInstruction
ExecuteInstruction(t0, st, obs, workgroup, activeMask, hp, gs, p, subgroupSize, undef) ==
  LET inst == InstAt(p, t0.m_FunctionInstructionIdx)
      t == [t0 EXCEPT !.m_FunctionInstructionIdx = @ + 1]
      o == CASE inst.op = "LaneIdx" -> ExecLaneIdx(t, inst, hp, st)
             [] inst.op = "Add" -> ExecAdd(t, inst, hp, st)
             [] inst.op = "ULess" -> ExecULess(t, inst, hp, st)
             [] inst.op = "WaveSum" ->
                  ExecWaveSum(t, inst, hp, st, workgroup, activeMask, subgroupSize)
             [] inst.op = "QuadReadLaneAt" -> ExecQuadReadLaneAt(t, inst, hp, st, workgroup)
             [] inst.op = "DerivCoarseX" -> ExecDerivCoarseX(t, inst, hp, st, workgroup)
             [] inst.op = "Branch" -> ExecBranch(t, inst, hp, st, obs, p)
             [] inst.op = "Phi" -> ExecPhi(t, inst, hp, st)
             [] inst.op = "Load" -> ExecLoad(t, inst, hp, st)
             [] inst.op \in AtomicOps -> ExecAtomic(t, inst, hp, st, obs)
             [] inst.op = "IsHelperLane" -> ExecIsHelperLane(t, inst, hp, st)
             [] inst.op = "Store" -> ExecStore(t, inst, hp, st, obs)
             [] inst.op = "GetElementPtr" -> ExecGetElementPtr(t, inst, hp, st, undef)
             [] inst.op = "Alloca" -> ExecAlloca(t, inst, hp, st)
             [] inst.op = "UDiv" -> ExecUDiv(t, inst, hp, st)
             [] inst.op = "WaveIsFirstLane" ->
                  ExecWaveIsFirstLane(t, inst, hp, st, workgroup, activeMask, subgroupSize,
                                      undef)
             [] inst.op = "InsertValue" -> ExecUnhandled(t, inst, hp, st)
             [] inst.op = "CreateHandle" -> ExecCreateHandle(t, inst, hp, st, p, gs)
             [] inst.op = "CreateHandleFromHeap" -> ExecCreateHandleFromHeap(t, inst, hp, st)
             [] inst.op \in {"BufferLoad", "BufferStore"} ->
                  ExecBufferAccess(t, inst, hp, st, obs, p, gs)
             [] inst.op = "Sample" -> ExecSample(t, inst, hp, st, obs, p)
             [] inst.op = "Discard" -> ExecDiscard(t, inst, hp, st, obs)
             [] inst.op \in {"FAdd", "FSub"} -> ExecFloatArith(t, inst, hp, st)
             [] inst.op \in FloatComparisons -> ExecFloatCompare(t, inst, hp, st)
             [] inst.op \in {"OpUDiv", "URem", "SRem"} -> ExecIntArith(t, inst, hp, st, undef)
             [] inst.op = "Ret" -> ExecRet(t, inst, hp, st)
             [] inst.op = "Unreachable" -> ExecUnreachable(t, inst, hp, st)
             [] OTHER -> ExecNoOp(t, inst, hp, st)
  IN CommitResult(o @@ [gs |-> gs, res |-> <<>>, op |-> inst.op], obs)

\* variant: the scan does not skip the ids that are not live
OutOfScopeAnyId(t, p) ==
  { id \in DOMAIN t.m_Live :
      /\ ~t.m_IsGlobal[id]
      /\ id \in DOMAIN p.maxExecPointPerId
      /\ IsAfter(ExecPointReference(t.m_Block, t.m_FunctionInstructionIdx),
                 p.maxExecPointPerId[id], p) }

\* StepNext's "Remove variables which have gone out of scope": the ids leaving scope
OutOfScope(t, p) ==
  { id \in DOMAIN t.m_Live :
      /\ t.m_Live[id]
      /\ ~t.m_IsGlobal[id]
      /\ id \in DOMAIN p.maxExecPointPerId
      /\ IsAfter(ExecPointReference(t.m_Block, t.m_FunctionInstructionIdx),
                 p.maxExecPointPerId[id], p) }

\* ThreadState::StepNext
StepNext(t, st, obs, workgroup, activeMask, hp, gs, p, subgroupSize, undef) ==
  LET gone == SortedSeq(OutOfScope(t, p))
      t1 == [t EXCEPT !.m_Diverged = FALSE,
                      !.m_EnteredPoints = <<>>,
                      !.m_ConvergencePoint = INVALID_EXECUTION_POINT,
                      !.m_Live = IF obs
                                 THEN [id \in DOMAIN @ |-> @[id] /\ id \notin OutOfScope(t, p)]
                                 ELSE @]
      st1 == IF obs
             THEN [st EXCEPT !.flags = {},
                             !.changes = [i \in DOMAIN gone |-> Change(VarAt(t, gone[i]), EmptyVar)]]
             ELSE st
  IN ExecuteInstruction(t1, st1, obs, workgroup, activeMask, hp, gs, p, subgroupSize, undef)

-----------------------------------------------------------------------------
(* Tangle bookkeeping (m_ControlFlow).  A tangle is a group of lanes stepped  *)
(* in lockstep: thread references, a stack of pending merge points, and the   *)
(* flags the step loop sets.                                                  *)

\* ThreadReference
ThreadRef(id) == [id |-> id, alive |-> TRUE]

\* Tangle
NewTangle(ids, mergePoints) ==
  [threadRefs |-> [i \in DOMAIN ids |-> ThreadRef(ids[i])],
   mergePoints |-> mergePoints,
   active |-> TRUE,
   diverged |-> FALSE]

\* ControlFlow::Construct(threadIds): one root tangle holding every given lane
Construct(threadIds) == << NewTangle(threadIds, <<>>) >>

\* Tangle::GetThreadRefs
GetThreadRefs(tangle) == tangle.threadRefs

\* lane ids a tangle still references as alive
AliveIds(tangle) == { tangle.threadRefs[i].id : i \in { j \in DOMAIN tangle.threadRefs :
                                                           tangle.threadRefs[j].alive } }

\* Tangle::IsAliveActive
IsAliveActive(tangle) == tangle.active /\ AliveIds(tangle) # {}

\* Tangle::SetThreadDead
SetThreadDead(tangle, threadId) ==
  [tangle EXCEPT !.threadRefs =
     [i \in DOMAIN @ |-> IF @[i].id = threadId THEN [@[i] EXCEPT !.alive = FALSE] ELSE @[i]]]

\* Tangle::AddMergePoint
AddMergePoint(tangle, point) ==
  IF tangle.mergePoints # <<>> /\ Last(tangle.mergePoints) = point
  THEN tangle
  ELSE [tangle EXCEPT !.mergePoints = Append(@, point)]

\* Tangle::SetDiverged
SetDiverged(tangle, flag) == [tangle EXCEPT !.diverged = flag]

\* the point a lane entered last in this pass, INVALID_EXECUTION_POINT when it entered none
LastEntered(states, id) ==
  IF id \in DOMAIN states /\ states[id] # <<>> THEN Last(states[id]) ELSE INVALID_EXECUTION_POINT

\* UpdateState, part 1: forget dead thread references and tangles left without a thread
PruneTangles(tgs) ==
  LET pruned == [i \in DOMAIN tgs |->
                   [tgs[i] EXCEPT !.threadRefs = SelectSeq(@, LAMBDA r : r.alive)]]
  IN SelectSeq(pruned, LAMBDA tg : tg.threadRefs # <<>>)

\* UpdateState, part 2: a diverged tangle splits into one tangle per entered point
SplitTangle(tangle, states) ==
  LET ids == AliveIds(tangle)
      points == SortedSeq({ LastEntered(states, id) : id \in ids })
  IN IF ~tangle.diverged
     THEN << tangle >>
     ELSE [k \in DOMAIN points |->
             NewTangle(SortedSeq({ id \in ids : LastEntered(states, id) = points[k] }),
                       tangle.mergePoints)]

\* UpdateState, part 3: a tangle whose lanes entered its pending merge point waits there
ArriveTangle(tangle, states) ==
  IF /\ tangle.active
     /\ tangle.mergePoints # <<>>
     /\ \A id \in AliveIds(tangle) : LastEntered(states, id) = Last(tangle.mergePoints)
  THEN [tangle EXCEPT !.active = FALSE]
  ELSE tangle

\* merge points at which every tangle that still expects them is waiting
ReadyMergePoints(tgs) ==
  { m \in UNION { Range(tgs[i].mergePoints) : i \in DOMAIN tgs } :
      \A i \in DOMAIN tgs :
        m \in Range(tgs[i].mergePoints) =>
          ~tgs[i].active /\ Last(tgs[i].mergePoints) = m }

\* UpdateState, part 4: tangles waiting at a ready merge point recombine into one
MergeTangles(tgs) ==
  LET ready == ReadyMergePoints(tgs)
      waitsAt(i, m) == ~tgs[i].active /\ tgs[i].mergePoints # <<>> /\ Last(tgs[i].mergePoints) = m
      firstAt(m) == Min({ i \in DOMAIN tgs : waitsAt(i, m) })
      merged(m) ==
        NewTangle(SortedSeq(UNION { AliveIds(tgs[i]) : i \in { j \in DOMAIN tgs : waitsAt(j, m) } }),
                  SubSeq(tgs[firstAt(m)].mergePoints, 1, Len(tgs[firstAt(m)].mergePoints) - 1))
      keep(i) == \A m \in ready : waitsAt(i, m) => i = firstAt(m)
      kept == SortedSeq({ i \in DOMAIN tgs : keep(i) })
  IN [k \in DOMAIN kept |->
        IF \E m \in ready : waitsAt(kept[k], m)
        THEN merged(Last(tgs[kept[k]].mergePoints))
        ELSE tgs[kept[k]]]

\* ControlFlow::UpdateState(threadExecutionStates)
UpdateState(tgs, states) ==
  LET pruned == PruneTangles(tgs)
      split == Flatten([i \in DOMAIN pruned |-> SplitTangle(pruned[i], states)])
      arrived == [i \in DOMAIN split |-> ArriveTangle(split[i], states)]
  IN MergeTangles(arrived)

-----------------------------------------------------------------------------
(* Debugger *)

Lanes == 0..(threadsInWorkgroup - 1)

\* Debugger::GetActiveLane
GetActiveLane == m_Workgroup[m_ActiveLaneIndex]

\* m_GlobalState.subgroupSize
SubgroupSize == m_GlobalState.subgroupSize

\* the subgroup sizes the caller may report for a workgroup of n lanes: one subgroup
\* spanning the workgroup, or for the wave query program several whole subgroups
SubgroupSizes(name, n) ==
  {n} \cup (IF name = "Subgroup" THEN { k \in 2..n : n % k = 0 } ELSE {})

\* the SubgroupIdx column of workgroupProperties for subgroups of size lanes
WithSubgroups(props, size) ==
  [i \in DOMAIN props |-> [props[i] EXCEPT !.SubgroupIdx = i % size]]

\* one ThreadProperties row: pixel lanes come in complete quads of consecutive lanes
ThreadProperties(n, i, inactive) ==
  [Active |-> IF i \in inactive THEN 0 ELSE 1,
   SubgroupIdx |-> i,
   Helper |-> 0,
   QuadLane |-> i % 4,
   QuadId |-> IF (i \div 4) * 4 + 3 < n THEN (i \div 4) + 1 ELSE 0]

\* the workgroupProperties a caller may hand to BeginDebug for n lanes: every lane
\* active, one lane other than the observed one inactive, or an array of the wrong length
WorkgroupProperties(n, activeLane) ==
  { [i \in 0..(n - 1) |-> ThreadProperties(n, i, {})],
    [i \in 0..(n - 2) |-> ThreadProperties(n, i, {})] }
  \cup { [i \in 0..(n - 1) |-> ThreadProperties(n, i, {d})] : d \in (0..(n - 1)) \ {activeLane} }

\* workgroupProperties of a pixel quad in which one lane other than the observed one
\* is a helper lane
HelperProperties(n, activeLane) ==
  { [i \in 0..(n - 1) |-> [ThreadProperties(n, i, {}) EXCEPT !.Helper = IF i = d THEN 1 ELSE 0]] :
      d \in (0..(n - 1)) \ {activeLane} }

\* "find quad neighbours": the first four lanes carrying a quad id
QuadThreads(props, quad) ==
  LET all == SortedSeq({ j \in DOMAIN props : props[j].QuadId = quad })
  IN SubSeq(all, 1, IF Len(all) < 4 THEN Len(all) ELSE 4)

\* "now swizzle the threads to know each other": m_QuadNeighbours of lane i
QuadNeighbours(props, i) ==
  LET threads == QuadThreads(props, props[i].QuadId)
      srcs(q) == { k \in DOMAIN threads : props[threads[k]].QuadLane = q }
  IN [q \in 0..3 |->
        IF props[i].QuadId = 0 \/ i \notin Range(threads) \/ srcs(q) = {}
        THEN INVALID_ID
        ELSE threads[CHOOSE k \in srcs(q) : \A k2 \in srcs(q) : k2 <= k]]

\* the lanes created by BeginDebug, as left by Debugger::InitialiseWorkgroup
InitialiseWorkgroupLanes(p, n, props) ==
  [i \in 0..(n - 1) |->
     IF n = 1 \/ Cardinality(DOMAIN props) # n
     THEN NewThreadState(p, i)
     ELSE [NewThreadState(p, i) EXCEPT
             !.m_Helper = IF m_Stage = "Pixel" THEN props[i].Helper # 0 ELSE @,
             !.m_QuadLaneIndex = IF m_Stage = "Pixel" THEN props[i].QuadLane ELSE @,
             !.m_QuadId = IF m_Stage = "Pixel" THEN props[i].QuadId ELSE @,
             !.m_Dead = props[i].Active = 0,
             !.m_SubgroupIdx = props[i].SubgroupIdx,
             !.m_QuadNeighbours = IF m_Stage = "Pixel" THEN QuadNeighbours(props, i) ELSE @]]

\* the control flow state left by Debugger::InitialiseWorkgroup
InitialiseWorkgroupTangles(n, props) ==
  IF n = 1 THEN Construct(<<0>>)
  ELSE IF Cardinality(DOMAIN props) # n THEN <<>>
  ELSE Construct(SortedSeq({ i \in 0..(n - 1) : props[i].Active # 0 }))

\* locals of ContinueDebug outside an iteration
LocInit ==
  [stepEnd |-> 0,
   threadExecutionStates |-> <<>>,
   anyActiveThreads |-> FALSE,
   tangleIdx |-> 0,
   activeMask |-> <<>>,
   lane |-> 0,
   newConvergencePoint |-> INVALID_EXECUTION_POINT,
   countActiveThreads |-> 0,
   countDivergedThreads |-> 0,
   countConvergePointThreads |-> 0,
   state |-> NewDebugState,
   hasDebugState |-> FALSE]

NoRecord == [valid |-> FALSE]

\* history of the session, kept for the properties
HistInit ==
  [calls |-> 0,              \* ContinueDebug calls so far, counted up to 2
   observedSteps |-> 0,      \* StepNext calls on the observed lane in the current call
   otherSteps |-> 0,         \* StepNext calls on other lanes in the current call
   members |-> {},           \* lanes of alive active tangles when the iteration began
   stepCount |-> <<>>,       \* lane -> StepNext calls in the current iteration
   executed |-> <<>>,        \* lane -> opcodes executed in the current iteration
   reported |-> {},          \* convergence points reported by lanes in the current tangle step
   preStep |-> <<>>,         \* lane -> m_Variables when the current tangle step began
   entry |-> <<>>,           \* lane -> m_Variables when the lane last entered a block
   lastPhi |-> NoRecord,
   lastCross |-> NoRecord,
   lastStore |-> NoRecord,
   lastLoad |-> NoRecord,
   mergePoints |-> {},       \* convergence points handed to AddMergePoint in the session
   killed |-> FALSE,         \* the step loop killed the observed lane
   stores |-> <<>>,          \* lane -> the last Store the lane executed
   lastGep |-> NoRecord,
   lastDiv |-> NoRecord,
   lastFail |-> NoRecord,
   lastRes |-> <<>>,         \* the handle resolutions of the last instruction executed
   unresolved |-> {},        \* <<lane, handle>> of every resolution that failed
   unreachable |-> {},       \* lanes that executed Unreachable
   discarded |-> {},         \* lanes that executed Discard with a true condition
   lastDeriv |-> NoRecord,
   lastFloat |-> NoRecord,
   lastCmp |-> NoRecord,
   lastInt |-> NoRecord,
   lastCommit |-> NoRecord,
   lastHelper |-> NoRecord,  \* the last IsHelperLane: the lane's helper flag and the result
   writes |-> <<>>,          \* lane -> the last Store or atomic the lane executed
   lastAtomic |-> NoRecord,  \* the last atomic: memory before and after, operand, result
   adds |-> <<>>,            \* <<buffer, cell>> -> sum of the operands of the AtomicAdds on it
   destroyed |-> FALSE,      \* the Debugger has been destroyed
   freed |-> {},             \* the free() calls made: who called and on which buffer
   lastWave |-> NoRecord,    \* the last wave operation: its inputs, lanes read and result
   lastScope |-> NoRecord,   \* the last observed step: the lane before it and its changes
   exited |-> {},            \* ids reported out of scope and not assigned since
   reexited |-> {}]          \* ids reported out of scope while in exited

Init ==
  /\ program \in ProgramNames
  /\ threadsInWorkgroup \in 1..MaxLanes
  /\ m_ActiveLaneIndex \in 0..(threadsInWorkgroup - 1)
  /\ \E size \in SubgroupSizes(program, threadsInWorkgroup),
        props \in WorkgroupProperties(threadsInWorkgroup, m_ActiveLaneIndex)
                   \cup (IF program \in {"Wave", "Subgroup"}
                         THEN HelperProperties(threadsInWorkgroup, m_ActiveLaneIndex)
                         ELSE {}) :
       /\ m_Workgroup = InitialiseWorkgroupLanes(Program(program), threadsInWorkgroup,
                                                 WithSubgroups(props, size))
       /\ tangles = InitialiseWorkgroupTangles(threadsInWorkgroup, props)
       /\ m_GlobalState = GlobalStateInit @@ [subgroupSize |-> size]
  /\ m_Steps = 0
  /\ heap = GlobalBacking(Program(program))
  /\ pc = "idle"
  /\ ret = <<>>
  /\ loc = LocInit
  /\ hist = HistInit

\* entry of ContinueDebug: the first-call initialisation and the early return
ContinueDebug ==
  /\ pc = "idle"
  /\ ~hist.destroyed
  /\ LET first == m_Steps = 0
         wg == IF first
               THEN [l \in Lanes |-> EnterEntryPoint(m_Workgroup[l], Prog)]
               ELSE m_Workgroup
         startPoint == wg[m_ActiveLaneIndex].m_ActiveGlobalInstructionIdx
         initial == [NewDebugState EXCEPT
                       !.nextInstruction = startPoint,
                       !.changes = [i \in DOMAIN Prog.globals |->
                                      Change(EmptyVar, GlobalVar(Prog.globals[i]))]]
         started == IF tangles = <<>> THEN <<>>
                    ELSE [l \in { x \in Lanes : ~Finished(wg[x]) } |-> <<startPoint>>]
         steps == IF first THEN 1 ELSE m_Steps
     IN /\ m_Workgroup' = wg
        /\ ret' = IF first THEN << initial >> ELSE <<>>
        /\ tangles' = IF first THEN UpdateState(tangles, started) ELSE tangles
        /\ m_Steps' = steps
        /\ pc' = IF Finished(wg[m_ActiveLaneIndex]) THEN "idle" ELSE "loop"
        /\ loc' = IF Finished(wg[m_ActiveLaneIndex]) THEN LocInit
                  ELSE [LocInit EXCEPT !.stepEnd = steps + StepBudget]
        /\ hist' = [hist EXCEPT !.calls = IF @ < 2 THEN @ + 1 ELSE @,
                                !.observedSteps = 0,
                                !.otherSteps = 0,
                                !.entry = IF first THEN [l \in Lanes |-> wg[l].m_Variables] ELSE @,
                                !.stores = IF first THEN [l \in Lanes |-> NoRecord] ELSE @,
                                !.writes = IF first THEN [l \in Lanes |-> NoRecord] ELSE @]
  /\ UNCHANGED <<program, threadsInWorkgroup, m_ActiveLaneIndex, heap, m_GlobalState>>

\* the loop condition fails or the observed lane has finished: return ret
LoopExit ==
  /\ pc = "loop"
  /\ m_Steps >= loc.stepEnd \/ Finished(GetActiveLane)
  /\ pc' = "idle"
  /\ loc' = LocInit
  /\ UNCHANGED <<program, threadsInWorkgroup, m_ActiveLaneIndex, m_Steps, m_Workgroup, heap, m_GlobalState,
                 tangles, ret, hist>>

\* top of the loop body
IterationBegin ==
  /\ pc = "loop"
  /\ m_Steps < loc.stepEnd
  /\ ~Finished(GetActiveLane)
  /\ pc' = "tangle"
  /\ loc' = [LocInit EXCEPT !.stepEnd = loc.stepEnd, !.tangleIdx = 1]
  /\ hist' = [hist EXCEPT
                !.members = UNION { AliveIds(tangles[i]) :
                                      i \in { j \in DOMAIN tangles : IsAliveActive(tangles[j]) } },
                !.stepCount = [l \in Lanes |-> 0],
                !.executed = [l \in Lanes |-> <<>>]]
  /\ UNCHANGED <<program, threadsInWorkgroup, m_ActiveLaneIndex, m_Steps, m_Workgroup, heap, m_GlobalState,
                 tangles, ret>>

\* tangles at or after position idx that are alive and active
RemainingTangles(idx) == { i \in DOMAIN tangles : i >= idx /\ IsAliveActive(tangles[i]) }

\* for(Tangle &tangle : tangles): advance to the next alive active tangle, build its mask
TangleBegin ==
  /\ pc = "tangle"
  /\ RemainingTangles(loc.tangleIdx) # {}
  /\ LET idx == Min(RemainingTangles(loc.tangleIdx))
         threadRefs == GetThreadRefs(tangles[idx])
         refIds == { threadRefs[i].id : i \in DOMAIN threadRefs }
     IN /\ loc' = [loc EXCEPT !.tangleIdx = idx,
                              !.activeMask = [l \in Lanes |-> l \in refIds],
                              !.anyActiveThreads = @ \/ refIds # {},
                              !.lane = 0,
                              !.newConvergencePoint = INVALID_EXECUTION_POINT,
                              !.countActiveThreads = 0,
                              !.countDivergedThreads = 0,
                              !.countConvergePointThreads = 0,
                              !.state = NewDebugState,
                              !.hasDebugState = FALSE]
        /\ hist' = [hist EXCEPT !.preStep = [l \in Lanes |-> m_Workgroup[l].m_Variables],
                                !.reported = {}]
  /\ pc' = "lane"
  /\ UNCHANGED <<program, threadsInWorkgroup, m_ActiveLaneIndex, m_Steps, m_Workgroup, heap, m_GlobalState,
                 tangles, ret>>

\* lanes at or after position from that the current mask selects
RemainingLanes(from) == { l \in Lanes : l >= from /\ loc.activeMask[l] }

\* value of an id in a saved copy of a lane's value table
SavedValue(table, id) == IF id \in DOMAIN table THEN table[id].value ELSE 0

\* the result of a cross-lane instruction computed from the operand values the lanes
\* held when the tangle's turn began
PreStepResult(h, t, inst, maskLanes) ==
  LET x(l) == SavedValue(h.preStep[l], inst.args[2].v)
      nb == t.m_QuadNeighbours
      quadLane == IF inst.args[3].v < 3 THEN inst.args[3].v ELSE 3
  IN CASE inst.op = "WaveSum" ->
            U32(SumSeq([i \in 1..Cardinality(maskLanes) |-> x(SortedSeq(maskLanes)[i])]))
       [] inst.op = "QuadReadLaneAt" ->
            IF nb[quadLane] = INVALID_ID THEN x(t.m_WorkgroupIndex) ELSE x(nb[quadLane])
       [] OTHER ->
            IF threadsInWorkgroup # 4 \/ \E q \in 0..3 : nb[q] = INVALID_ID
            THEN 0 ELSE U32(x(nb[1]) - x(nb[0]))

\* two variables are the same one (names are ids or resource names by type)
SameVariable(a, b) == a.type = b.type /\ a = b

\* the ids a step of thread t reports as gone out of scope: live before the step, not
\* live after it, with a change from their value to empty
Reported(t, o) ==
  { id \in DOMAIN t.m_Live :
      /\ t.m_Live[id]
      /\ ~o.t.m_Live[id]
      /\ \E j \in DOMAIN o.st.changes :
           /\ o.st.changes[j].after = EmptyVar
           /\ SameVariable(o.st.changes[j].before, VarAt(t, id)) }

\* what the history keeps of one executed instruction
\* the value of an operand as the program or the lane's table holds it
RawValue(t, arg) == IF arg.k = "flt" THEN arg.v ELSE GetShaderVariable(t, arg).value

Observe(h, lane, inst, before, o) ==
  LET jumped == o.t.m_EnteredPoints # <<>>
      a == PhiSelect(before, inst)
      opnd == IF inst.op = "Phi" /\ a # 0 THEN inst.args[a] ELSE Lit(0)
      maskLanes == Range(GetSubgroupActiveLanes(before, loc.activeMask, m_Workgroup,
                                                SubgroupSize))
      ptrId == GetSSAId(inst.args[1])
      ptr == before.m_Pointers[ptrId]
      observed == lane = m_ActiveLaneIndex
      scopeExits == IF observed THEN Cardinality(OutOfScope(before, Prog)) ELSE 0
      store == [valid |-> TRUE, lane |-> lane, ptrId |-> ptrId,
                base |-> ptr.baseMemoryId, cell |-> CellOf(ptr.offset),
                value |-> o.heap[ptr.memory][CellOf(ptr.offset)],
                var |-> GetShaderVariable(before, inst.args[2]),
                observed |-> observed,
                records |-> SubSeq(o.st.changes, scopeExits + 1, Len(o.st.changes)),
                written |-> LET val == GetShaderVariable(before, inst.args[2])
                                leaves == IF val.members = <<>> THEN <<val>>
                                          ELSE val.members
                            IN \A i \in DOMAIN leaves :
                                 /\ CellOf(ptr.offset) + i - 1 \in DOMAIN o.heap[ptr.memory]
                                 /\ o.heap[ptr.memory][CellOf(ptr.offset) + i - 1] =
                                       leaves[i].value,
                synced |-> LET view == VarAt(o.t, ptr.baseMemoryId)
                               leaves == IF view.members = <<>> THEN <<view>>
                                         ELSE view.members
                           IN \A i \in DOMAIN leaves :
                                leaves[i].value = o.heap[ptr.memory][i - 1],
                untouched |-> o.st = loc.state]
      h0 == [h EXCEPT
               !.stepCount[lane] = @ + 1,
               !.executed[lane] = Append(@, inst.op),
               !.observedSteps = IF lane = m_ActiveLaneIndex THEN @ + 1 ELSE @,
               !.otherSteps = IF lane = m_ActiveLaneIndex THEN @ ELSE @ + 1,
               !.reported = IF o.t.m_ConvergencePoint = INVALID_EXECUTION_POINT THEN @
                            ELSE @ \cup {o.t.m_ConvergencePoint},
               !.entry[lane] = IF jumped THEN o.t.m_Variables ELSE @,
               !.lastRes = o.res,
               !.unresolved = @ \cup { <<lane, o.res[i].handle>> :
                                         i \in { j \in DOMAIN o.res : ~o.res[j].info.valid } },
               !.unreachable = IF inst.op = "Unreachable" THEN @ \cup {lane} ELSE @,
               !.discarded = IF /\ inst.op = "Discard"
                                /\ GetShaderVariable(before, inst.args[2]).value # 0
                             THEN @ \cup {lane} ELSE @,
               !.lastDeriv =
                  IF inst.op = "DerivCoarseX"
                  THEN [valid |-> TRUE, lane |-> lane, quadLane |-> before.m_QuadLaneIndex,
                        result |-> VarAt(o.t, inst.slot).value,
                        complete |-> /\ Cardinality(Lanes) = 4
                                     /\ \A q \in 0..3 : before.m_QuadNeighbours[q] \in Lanes,
                        diverged |-> QuadIsDiverged(m_Workgroup, before.m_QuadNeighbours),
                        operands |-> [q \in 0..3 |->
                           IF before.m_QuadNeighbours[q] \in Lanes
                           THEN GetShaderVariable(m_Workgroup[before.m_QuadNeighbours[q]],
                                                  CrossLaneOperand(inst)).value
                           ELSE 0]]
                  ELSE @,
               !.lastFloat =
                  IF inst.op \in {"FAdd", "FSub"}
                  THEN [valid |-> TRUE, lane |-> lane, observed |-> observed, op |-> inst.op,
                        a |-> RawValue(before, inst.args[1]),
                        b |-> RawValue(before, inst.args[2]),
                        committed |-> VarAt(o.t, inst.slot).value]
                  ELSE @,
               !.lastCmp =
                  IF inst.op \in FloatComparisons
                  THEN [valid |-> TRUE, lane |-> lane, op |-> inst.op,
                        a |-> RawValue(before, inst.args[1]),
                        b |-> RawValue(before, inst.args[2]),
                        result |-> VarAt(o.t, inst.slot).value]
                  ELSE @,
               !.lastInt =
                  IF inst.op \in {"OpUDiv", "URem", "SRem"}
                  THEN [valid |-> TRUE, lane |-> lane, observed |-> observed, op |-> inst.op,
                        a |-> RawValue(before, inst.args[1]),
                        b |-> RawValue(before, inst.args[2]),
                        result |-> VarAt(o.t, inst.slot).value,
                        flags |-> o.st.flags]
                  ELSE @,
               !.lastHelper =
                  IF inst.op = "IsHelperLane"
                  THEN [valid |-> TRUE, lane |-> lane, helper |-> before.m_Helper,
                        result |-> o.result.value]
                  ELSE @,
               !.writes =
                  IF inst.op \in AtomicOps \cup {"Store"} /\ ptrId \in DOMAIN before.m_Pointers
                  THEN [@ EXCEPT ![lane] =
                          [valid |-> TRUE, ptrId |-> ptrId, address |-> ptr.memory,
                           cell |-> CellOf(ptr.offset),
                           value |-> o.heap[ptr.memory][CellOf(ptr.offset)],
                           scalar |-> ptr.size = ElemByteSize]]
                  ELSE @,
               !.lastAtomic =
                  IF inst.op \in AtomicOps /\ ptrId \in DOMAIN before.m_Pointers
                  THEN [valid |-> TRUE, lane |-> lane, op |-> inst.op,
                        address |-> ptr.memory, cell |-> CellOf(ptr.offset),
                        before |-> heap[ptr.memory][CellOf(ptr.offset)],
                        after |-> o.heap[ptr.memory][CellOf(ptr.offset)],
                        operand |-> GetShaderVariable(before, inst.args[Len(inst.args)]).value,
                        result |-> o.result.value]
                  ELSE @,
               !.adds =
                  IF inst.op = "AtomicAdd" /\ ptrId \in DOMAIN before.m_Pointers
                  THEN MapSet(@, <<ptr.memory, CellOf(ptr.offset)>>,
                              (IF <<ptr.memory, CellOf(ptr.offset)>> \in DOMAIN @
                               THEN @[<<ptr.memory, CellOf(ptr.offset)>>] ELSE 0)
                                + GetShaderVariable(before, inst.args[2]).value)
                  ELSE @,
               !.lastWave =
                  IF inst.op \in {"WaveSum", "WaveIsFirstLane"}
                  THEN [valid |-> TRUE, lane |-> lane, op |-> inst.op,
                        subgroupIdx |-> before.m_SubgroupIdx,
                        subgroupSize |-> SubgroupSize,
                        activeMask |-> loc.activeMask,
                        helpers |-> { l \in Lanes : m_Workgroup[l].m_Helper },
                        read |-> maskLanes,
                        operands |-> [l \in Lanes |->
                                        IF inst.op = "WaveSum"
                                        THEN GetShaderVariable(m_Workgroup[l],
                                                               CrossLaneOperand(inst)).value
                                        ELSE 0],
                        result |-> o.result.value]
                  ELSE @,
               !.lastScope =
                  IF observed
                  THEN [valid |-> TRUE, lane |-> lane,
                        block |-> before.m_Block,
                        instruction |-> before.m_FunctionInstructionIdx,
                        live |-> before.m_Live,
                        isGlobal |-> before.m_IsGlobal,
                        values |-> [id \in DOMAIN before.m_Live |-> VarAt(before, id)],
                        changes |-> o.st.changes,
                        liveAfter |-> o.t.m_Live]
                  ELSE @,
               !.reexited = IF observed THEN @ \cup (Reported(before, o) \cap h.exited)
                            ELSE @,
               !.exited = IF observed
                          THEN (@ \cup Reported(before, o)) \
                                 (IF ~o.early /\ o.result.name # <<>> THEN {o.resultId} ELSE {})
                          ELSE @,
               !.lastCommit =
                  IF /\ inst.slot # INVALID_ID
                     /\ ~o.early
                     /\ o.result.name # <<>>
                     /\ o.resultId = inst.slot
                  THEN [valid |-> TRUE, lane |-> lane, observed |-> observed, op |-> inst.op,
                        id |-> inst.slot,
                        result |-> o.result,
                        prevAssigned |-> IsVariableAssigned(before, inst.slot),
                        prev |-> VarAt(before, inst.slot),
                        live |-> o.t.m_Live[inst.slot],
                        assigned |-> o.t.m_Assigned[inst.slot],
                        table |-> VarAt(o.t, inst.slot),
                        records |-> IF observed
                                    THEN SubSeq(o.st.changes, scopeExits + 1,
                                                Len(o.st.changes))
                                    ELSE <<>>,
                        accesses |-> SumSeq([i \in DOMAIN o.res |-> Len(o.res[i].records)]),
                        memory |-> IF observed /\ inst.op \in AtomicOps THEN 2 ELSE 0,
                        untouched |-> o.st = loc.state]
                  ELSE [valid |-> FALSE]]
      h1 == IF o.err
            THEN [h0 EXCEPT !.lastFail =
                    [valid |-> TRUE, lane |-> lane, op |-> inst.op,
                     default |-> /\ o.result.value = 0
                                 /\ o.result.value1 = 0
                                 /\ o.result.members = <<>>,
                     committed |-> /\ VarAt(o.t, inst.slot).value = 0
                                   /\ VarAt(o.t, inst.slot).value1 = 0
                                   /\ VarAt(o.t, inst.slot).members = <<>>,
                     next |-> o.t.m_FunctionInstructionIdx = before.m_FunctionInstructionIdx + 1,
                     finished |-> Finished(o.t)]]
            ELSE h0
  IN CASE inst.op = "Phi" /\ opnd.k = "ssa" ->
            [h1 EXCEPT !.lastPhi = [valid |-> TRUE, lane |-> lane,
                                    result |-> o.result.value,
                                    atEntry |-> SavedValue(h.entry[lane], opnd.v),
                                    live |-> SavedValue(before.m_Variables, opnd.v)]]
       [] inst.op \in {"WaveSum", "QuadReadLaneAt", "DerivCoarseX"} ->
            [h1 EXCEPT !.lastCross =
               [valid |-> TRUE, op |-> inst.op, lane |-> lane, result |-> o.result.value,
                preStep |-> PreStepResult(h, before, inst, maskLanes),
                steppedBefore |-> { l \in Lanes : h.stepCount[l] > 0 }]]
       [] inst.op = "Store" /\ ptrId \in DOMAIN before.m_Pointers ->
            [h1 EXCEPT !.lastStore = [valid |-> TRUE, lane |-> lane,
                                      base |-> ptr.baseMemoryId, cell |-> CellOf(ptr.offset),
                                      value |-> store.value],
                       !.stores[lane] = store]
       [] inst.op = "Load" /\ ptrId \in DOMAIN before.m_Pointers ->
            [h1 EXCEPT !.lastLoad = [valid |-> TRUE, lane |-> lane, ptrId |-> ptrId,
                                     base |-> ptr.baseMemoryId, cell |-> CellOf(ptr.offset),
                                     value |-> o.result.value,
                                     var |-> o.result,
                                     stored |-> h.lastStore,
                                     own |-> h.stores[lane],
                                     address |-> ptr.memory,
                                     scalar |-> ptr.size = ElemByteSize,
                                     written |-> h.writes[lane]]]
       [] inst.op = "GetElementPtr" /\ ptrId \in DOMAIN before.m_Allocations ->
            [h1 EXCEPT !.lastGep =
               [valid |-> TRUE, lane |-> lane,
                index |-> GetShaderVariable(before, inst.args[3]).value,
                exceeds |-> GetShaderVariable(before, inst.args[3]).value * ElemByteSize
                              + ElemByteSize > before.m_Allocations[ptrId].size,
                logged |-> o.err,
                pointer |-> inst.slot \in DOMAIN o.t.m_Pointers,
                outside |-> /\ inst.slot \in DOMAIN o.t.m_Pointers
                            /\ CellOf(o.t.m_Pointers[inst.slot].offset) \notin
                                 DOMAIN o.heap[o.t.m_Pointers[inst.slot].memory]]]
       [] inst.op = "UDiv" ->
            [h1 EXCEPT !.lastDiv =
               [valid |-> TRUE, lane |-> lane, observed |-> observed,
                dividend |-> GetShaderVariable(before, inst.args[2]).value,
                divisor |-> GetShaderVariable(before, inst.args[3]).value,
                quotient |-> VarAt(o.t, inst.slot).value,
                remainder |-> VarAt(o.t, inst.slot).value1,
                flags |-> o.st.flags]]
       [] OTHER -> h1

\* the body of the lane loop once StepNext has produced the outcome o of the lane's step
StepLaneOutcome(lane, thread, obs, o, point) ==
  IF Finished(thread)
  THEN /\ ret' = IF obs THEN Append(ret, NewDebugState) ELSE ret
       /\ tangles' = [tangles EXCEPT ![loc.tangleIdx] = SetThreadDead(@, lane)]
       /\ loc' = [loc EXCEPT !.lane = lane + 1, !.countActiveThreads = @ + 1]
       /\ UNCHANGED <<m_Workgroup, heap, m_GlobalState, m_Steps, hist, pc>>
  ELSE IF o.fault
  THEN /\ pc' = "fault"
       /\ UNCHANGED <<m_Workgroup, heap, m_GlobalState, m_Steps, tangles, loc, hist, ret>>
  ELSE /\ pc' = pc
       /\ m_Workgroup' = [m_Workgroup EXCEPT ![lane] = o.t]
       /\ heap' = o.heap
       /\ m_GlobalState' = o.gs
       /\ m_Steps' = IF obs THEN m_Steps + 1 ELSE m_Steps
       /\ tangles' = IF Finished(o.t)
                     THEN [tangles EXCEPT ![loc.tangleIdx] = SetThreadDead(@, lane)]
                     ELSE tangles
       /\ loc' = [loc EXCEPT
                    !.lane = lane + 1,
                    !.countActiveThreads = @ + 1,
                    !.state = o.st,
                    !.hasDebugState = @ \/ obs,
                    !.threadExecutionStates = MapSet(@, lane, o.t.m_EnteredPoints),
                    !.newConvergencePoint =
                       IF point # INVALID_EXECUTION_POINT /\ @ = INVALID_EXECUTION_POINT
                       THEN point ELSE @,
                    !.countConvergePointThreads =
                       IF point # INVALID_EXECUTION_POINT THEN @ + 1 ELSE @,
                    !.countDivergedThreads = IF o.t.m_Diverged THEN @ + 1 ELSE @]
       /\ hist' = Observe(hist, lane, InstAt(Prog, thread.m_FunctionInstructionIdx),
                          thread, o)
       /\ UNCHANGED ret

\* the observed lane's state starts the step with stepIndex = m_Steps
StepState(obs) == IF obs THEN [loc.state EXCEPT !.stepIndex = m_Steps] ELSE loc.state

\* the lane's step: StepNext on the lane's thread, then the loop body's bookkeeping
StepThread(lane, thread, obs, o) ==
  StepLaneOutcome(lane, thread, obs, o, o.t.m_ConvergencePoint)

\* one turn of "step all active members of the workgroup" for the next masked lane
StepLane ==
  /\ pc = "lane"
  /\ RemainingLanes(loc.lane) # {}
  /\ \E undef \in Undefined, lane \in {Min(RemainingLanes(loc.lane))} :
       StepThread(lane, m_Workgroup[lane], lane = m_ActiveLaneIndex,
                  StepNext(m_Workgroup[lane], StepState(lane = m_ActiveLaneIndex),
                           lane = m_ActiveLaneIndex, m_Workgroup, loc.activeMask, heap,
                           m_GlobalState, Prog, SubgroupSize, undef))
  /\ UNCHANGED <<program, threadsInWorkgroup, m_ActiveLaneIndex>>

\* variant: a state is pushed for every tangle
PushStateAlways(r, hasDebugState, state) == Append(r, state)

\* if(hasDebugState) { ...; ret.push_back(std::move(state)); }
PushState(r, hasDebugState, state) == IF hasDebugState THEN Append(r, state) ELSE r

\* the rest of the tangle's turn once every masked lane was visited
TangleEnd ==
  /\ pc = "lane"
  /\ RemainingLanes(loc.lane) = {}
  /\ LET wg == [l \in Lanes |-> IF loc.activeMask[l]
                                 THEN StepOverNopInstructions(m_Workgroup[l], Prog)
                                 ELSE m_Workgroup[l]]
         state == [loc.state EXCEPT
                     !.nextInstruction = wg[m_ActiveLaneIndex].m_ActiveGlobalInstructionIdx]
         tg1 == IF loc.countConvergePointThreads # 0
                THEN AddMergePoint(tangles[loc.tangleIdx], loc.newConvergencePoint)
                ELSE tangles[loc.tangleIdx]
         tg2 == IF loc.countDivergedThreads # 0 THEN SetDiverged(tg1, TRUE) ELSE tg1
     IN /\ m_Workgroup' = wg
        /\ ret' = PushState(ret, loc.hasDebugState, state)
        /\ tangles' = [tangles EXCEPT ![loc.tangleIdx] = tg2]
        /\ hist' = [hist EXCEPT !.mergePoints =
                      IF loc.countConvergePointThreads # 0
                      THEN @ \cup {loc.newConvergencePoint} ELSE @]
  /\ loc' = [loc EXCEPT !.tangleIdx = @ + 1]
  /\ pc' = "tangle"
  /\ UNCHANGED <<program, threadsInWorkgroup, m_ActiveLaneIndex, m_Steps, heap, m_GlobalState>>

\* variant: the observed lane is left alive
KillActiveLaneSkipped(wg, activeLane) == wg

\* if(!anyActiveThreads) active.m_Dead = true;
KillActiveLane(wg, activeLane) == [wg EXCEPT ![activeLane].m_Dead = TRUE]

\* end of the loop body: the defensive termination and m_ControlFlow.UpdateState
IterationEnd ==
  /\ pc = "tangle"
  /\ RemainingTangles(loc.tangleIdx) = {}
  /\ IF ~loc.anyActiveThreads
     THEN /\ m_Workgroup' = KillActiveLane(m_Workgroup, m_ActiveLaneIndex)
          /\ tangles' = UpdateState(UpdateState(tangles, loc.threadExecutionStates),
                                    loc.threadExecutionStates)
          /\ hist' = [hist EXCEPT !.killed = TRUE]
     ELSE /\ tangles' = UpdateState(tangles, loc.threadExecutionStates)
          /\ UNCHANGED <<m_Workgroup, hist>>
  /\ pc' = "loop"
  /\ loc' = [LocInit EXCEPT !.stepEnd = loc.stepEnd]
  /\ UNCHANGED <<program, threadsInWorkgroup, m_ActiveLaneIndex, m_Steps, heap, m_GlobalState, ret>>

\* variant: the lane's destructor frees every allocation it holds
ThreadStateDestructorAll(t) ==
  { [by |-> t.m_WorkgroupIndex, address |-> t.m_Allocations[id].backingMemory] :
      id \in DOMAIN t.m_Allocations }

\* ThreadState::~ThreadState: the free() calls
ThreadStateDestructor(t) ==
  { [by |-> t.m_WorkgroupIndex, address |-> t.m_Allocations[id].backingMemory] :
      id \in { a \in DOMAIN t.m_Allocations : ~t.m_Allocations[a].global } }

\* GlobalState::~GlobalState: the free() calls, -1 standing for the GlobalState
GlobalStateDestructor(p) ==
  { [by |-> -1, address |-> GlobalAllocations(p)[id].backingMemory] :
      id \in DOMAIN GlobalAllocations(p) }

\* the caller destroys the Debugger between two calls: the lanes of m_Workgroup and
\* m_GlobalState are destroyed
DestroyDebugger ==
  /\ pc = "idle"
  /\ ~hist.destroyed
  /\ hist' = [hist EXCEPT
               !.destroyed = TRUE,
               !.freed = UNION { ThreadStateDestructor(m_Workgroup[l]) : l \in Lanes }
                           \cup GlobalStateDestructor(Prog)]
  /\ UNCHANGED <<program, threadsInWorkgroup, m_ActiveLaneIndex, m_Steps, m_Workgroup, heap,
                 m_GlobalState, tangles, pc, ret, loc>>

Next ==
  \/ DestroyDebugger
  \/ ContinueDebug
  \/ LoopExit
  \/ IterationBegin
  \/ TangleBegin
  \/ StepLane
  \/ TangleEnd
  \/ IterationEnd

Spec == Init /\ [][Next]_vars

-----------------------------------------------------------------------------
(* Properties *)

\* every tangle of the current iteration has had its turn
IterationDone == pc = "tangle" /\ RemainingTangles(loc.tangleIdx) = {}

\* every masked lane of the current tangle has had its turn
TangleStepped == pc = "lane" /\ RemainingLanes(loc.lane) = {}

\* the observed lane has finished and ContinueDebug has returned
SessionOver == pc = "idle" /\ m_Steps > 0 /\ Finished(GetActiveLane)

\* C1: in one iteration of the step loop a lane is stepped at most once, only if it
\* was in an alive active tangle when the iteration began, and what it executes is
\* never a nop; once every tangle has had its turn each such lane has been stepped
\* exactly once.
C1_OneStepPerLane ==
  /\ pc \in {"tangle", "lane"} =>
       \A l \in Lanes :
         /\ hist.stepCount[l] <= 1
         /\ Len(hist.executed[l]) = hist.stepCount[l]
         /\ \A k \in DOMAIN hist.executed[l] : hist.executed[l][k] # "Nop"
         /\ l \notin hist.members => hist.stepCount[l] = 0
  /\ IterationDone => \A l \in hist.members : hist.stepCount[l] = 1

\* an iteration ended in which two lanes stepped while a live lane waited in an
\* inactive tangle
C1_Witness ==
  /\ IterationDone
  /\ Cardinality(hist.members) >= 2
  /\ \E l \in Lanes : l \notin hist.members /\ ~Finished(m_Workgroup[l])
                       /\ hist.stepCount[l] = 0

\* C2: when a tangle has been stepped, either none or all of its masked lanes
\* reported a new convergence point, all reported points are the same point, and
\* either none or all of them reported divergence.
C2_Unanimous ==
  /\ pc = "lane" => Cardinality(hist.reported) <= 1
  /\ TangleStepped =>
       /\ loc.countConvergePointThreads \in {0, loc.countActiveThreads}
       /\ loc.countDivergedThreads \in {0, loc.countActiveThreads}
       /\ hist.reported = IF loc.countConvergePointThreads = 0 THEN {}
                          ELSE {loc.newConvergencePoint}

\* a tangle of several lanes was stepped through a branch that sent its lanes to
\* different blocks, and every lane reported the convergence point
C2_Witness ==
  /\ TangleStepped
  /\ loc.countActiveThreads >= 2
  /\ loc.countConvergePointThreads = loc.countActiveThreads
  /\ loc.countDivergedThreads = loc.countActiveThreads
  /\ \E a, b \in Lanes : /\ loc.activeMask[a] /\ loc.activeMask[b]
                         /\ m_Workgroup[a].m_Block # m_Workgroup[b].m_Block

\* C3: in the diamond, the phi at the join gives each lane the value its own branch
\* computed (lane + 10 through B1 for lanes below 2, lane + 21 through B2 otherwise),
\* which is also the lane's own copy of that branch's result.
C3_PhiOwnBranch ==
  program = "Diamond" =>
    \A l \in Lanes :
      LET t == m_Workgroup[l]
      IN IsVariableAssigned(t, 6) =>
           /\ VarAt(t, 6).value = IF t.m_SubgroupIdx < 2 THEN t.m_SubgroupIdx + 10
                                  ELSE t.m_SubgroupIdx + 21
           /\ VarAt(t, 6).value = IF t.m_PreviousBlock = 1 THEN VarAt(t, 3).value
                                  ELSE VarAt(t, 5).value

\* lanes from both branches have resolved the phi
C3_Witness ==
  /\ program = "Diamond"
  /\ \E a, b \in Lanes :
       /\ IsVariableAssigned(m_Workgroup[a], 6) /\ m_Workgroup[a].m_PreviousBlock = 1
       /\ IsVariableAssigned(m_Workgroup[b], 6) /\ m_Workgroup[b].m_PreviousBlock = 2

\* C4: a phi yields the value its selected operand had when the lane entered the
\* block, whatever the operand's entry in the live table has become since.
C4_PhiSnapshot ==
  hist.lastPhi.valid => hist.lastPhi.result = hist.lastPhi.atEntry

\* a phi was resolved after an earlier phi of the same block had overwritten its
\* operand in the live table
C4_Witness ==
  /\ hist.lastPhi.valid
  /\ hist.lastPhi.live # hist.lastPhi.atEntry
  /\ hist.lastPhi.result = hist.lastPhi.atEntry

\* C5: the result of a wave reduction, quad read or derivative is the one computed
\* from the operand values all lanes held when the tangle's turn began, however many
\* lanes of the tangle have already been stepped in this turn.
C5_PreStepOperands ==
  hist.lastCross.valid => hist.lastCross.result = hist.lastCross.preStep

\* a lane read, through a quad read, a value of a lane that had already been stepped
\* in the same turn
C5_Witness ==
  /\ hist.lastCross.valid
  /\ hist.lastCross.op = "QuadReadLaneAt"
  /\ hist.lastCross.lane = 3
  /\ 0 \in hist.lastCross.steppedBefore
  /\ hist.lastCross.result = hist.lastCross.preStep
  /\ hist.lastCross.result # 0

\* C6: a Load from an element of a shared global allocation returns the value the
\* most recent Store to that element wrote, when that Store was made by another lane.
C6_StoreVisible ==
  LET ld == hist.lastLoad
  IN (/\ ld.valid
      /\ ld.stored.valid
      /\ ld.stored.base = ld.base
      /\ ld.stored.cell = ld.cell
      /\ ld.stored.lane # ld.lane)
     => ld.value = ld.stored.value

\* all lanes of the diamond workgroup are in the control flow
AllLanesActive == \A l \in Lanes : ~m_Workgroup[l].m_Dead

\* C7: with four lanes on the diamond, lanes {0,1} through B1 and {2,3} through B2,
\* the only convergence point ever reported is the join block, every lane reaches it,
\* and WaveActiveSum(laneIndex) executed there gives 6 on every lane.
C7_RoundTrip ==
  (program = "Diamond" /\ threadsInWorkgroup = 4 /\ AllLanesActive) =>
    /\ hist.mergePoints \subseteq {3}
    /\ \A l \in Lanes : IsVariableAssigned(m_Workgroup[l], 7) =>
                          /\ VarAt(m_Workgroup[l], 7).value = 6
                          /\ m_Workgroup[l].m_Block = 3
                          /\ hist.mergePoints = {3}
    /\ SessionOver => \A l \in Lanes : IsVariableAssigned(m_Workgroup[l], 7)

\* the four-lane diamond session is over and every lane holds the sum
C7_Witness ==
  /\ program = "Diamond" /\ threadsInWorkgroup = 4 /\ AllLanesActive
  /\ SessionOver
  /\ \A l \in Lanes : VarAt(m_Workgroup[l], 7).value = 6
  /\ \A l \in Lanes : VarAt(m_Workgroup[l], 3).value = l + 10 <=> l < 2

\* C8: the step loop returns as soon as it finds the observed lane finished; an
\* iteration that found no thread in any alive active tangle kills the observed lane;
\* an iteration never ends with no lane stepped and the observed lane still running;
\* once the observed lane has finished no call steps any lane.
C8_LoopStops ==
  [][ /\ (pc = "loop" /\ Finished(GetActiveLane)) =>
           (pc' = "idle" /\ m_Workgroup' = m_Workgroup)
      /\ (IterationDone /\ ~loc.anyActiveThreads) =>
           (m_Workgroup'[m_ActiveLaneIndex].m_Dead /\ pc' = "loop")
      /\ (pc = "tangle" /\ pc' = "loop") =>
           ((\E l \in Lanes : hist.stepCount[l] > 0)
              \/ Finished(m_Workgroup'[m_ActiveLaneIndex]))
      /\ SessionOver =>
           (pc' = "idle" /\ m_Workgroup' = m_Workgroup /\ m_Steps' = m_Steps /\ heap' = heap)
    ]_vars

\* the defensive termination happened and a later call returned
C8_Witness ==
  /\ hist.killed
  /\ SessionOver
  /\ hist.calls = 2
  /\ ret = <<>>

\* C9: when a call returns, ret holds one state per StepNext made on the observed
\* lane during the call, plus the initial state when the call is the first one.
C9_OneStatePerStep ==
  (pc = "idle" /\ hist.calls > 0) =>
    Len(ret) = hist.observedSteps + (IF hist.calls = 1 THEN 1 ELSE 0)

\* a call after the first returned having stepped the observed lane and other lanes
C9_Witness ==
  /\ pc = "idle"
  /\ hist.calls = 2
  /\ hist.observedSteps > 0
  /\ hist.otherSteps > hist.observedSteps
  /\ Len(ret) = hist.observedSteps

\* the lane the next StepLane turn is for
NextLane == Min(RemainingLanes(loc.lane))

C12_GlobalStateReadOnly ==
  [][ /\ m_GlobalState'.readOnlyResources = m_GlobalState.readOnlyResources
      /\ m_GlobalState'.readWriteResources = m_GlobalState.readWriteResources
      /\ m_GlobalState'.samplers = m_GlobalState.samplers
      /\ \A b \in DOMAIN m_GlobalState.uavs :
            b \in DOMAIN m_GlobalState'.uavs /\ m_GlobalState'.uavs[b] = m_GlobalState.uavs[b]
      /\ \A b \in DOMAIN m_GlobalState.srvs :
            b \in DOMAIN m_GlobalState'.srvs /\ m_GlobalState'.srvs[b] = m_GlobalState.srvs[b]
    ]_vars

\* C13: a struct value stored through an Alloca pointer and loaded back through the
\* same pointer by the same lane, with no store by that lane in between, is loaded
\* equal to what was stored in every component of every member.
C13_StructRoundTrip ==
  LET ld == hist.lastLoad
  IN (/\ ld.valid
      /\ ld.own.valid
      /\ ld.own.ptrId = ld.ptrId
      /\ ld.own.var.type = "Struct")
     => /\ ld.var.value = ld.own.var.value
        /\ ld.var.value1 = ld.own.var.value1
        /\ DOMAIN ld.var.members = DOMAIN ld.own.var.members
        /\ \A i \in DOMAIN ld.own.var.members :
              /\ ld.var.members[i].value = ld.own.var.members[i].value
              /\ ld.var.members[i].value1 = ld.own.var.members[i].value1

\* the records a Store of the observed lane appended, for every lane's last Store
ObservedStores == { hist.stores[l] : l \in { k \in DOMAIN hist.stores :
                                              hist.stores[k].valid /\ hist.stores[k].observed } }

\* C14 as stated: each Store executed by the observed lane appends exactly one
\* before/after change record to the step's state.
C14_OneRecordPerStore == \A s \in ObservedStores : Len(s.records) = 1

\* C14: each Store executed by the observed lane appends exactly two before/after
\* change records to the step's state: first the one of the allocation's base
\* variable, then the one of the pointer variable, which takes the stored value.
C14_TwoRecordsPerStore ==
  \A s \in ObservedStores :
    /\ Len(s.records) = 2
    /\ s.records[1].before.name = <<s.base>>
    /\ s.records[1].after.name = <<s.base>>
    /\ s.records[2].before.name = <<s.ptrId>>
    /\ s.records[2].after.name = <<s.ptrId>>
    /\ s.records[2].after.value = s.var.value

\* the observed lane stored through a GetElementPtr pointer: the base variable's
\* record shows the element change, the pointer's record the stored value
C14_Witness ==
  \E s \in ObservedStores :
    /\ s.ptrId # s.base
    /\ s.lane = m_ActiveLaneIndex
    /\ s.records[1].before.members[2].value = 0
    /\ s.records[1].after.members[2].value = s.lane + 3
    /\ s.records[2].after.value = s.lane + 3

\* C15: a GetElementPtr whose byte offset plus element size exceeds the size of the
\* allocation is rejected: an error is logged, no pointer is recorded for the result
\* id, and nothing outside the backing buffer is addressed.
C15_GEPRejected ==
  (hist.lastGep.valid /\ hist.lastGep.exceeds) =>
     /\ hist.lastGep.logged
     /\ ~hist.lastGep.pointer
     /\ ~hist.lastGep.outside
     /\ pc # "fault"

\* C16: UDiv(a, 0) gives quotient and remainder of all ones for every dividend a,
\* and raises the GeneratedNanOrInf flag of the step when the lane is observed.
C16_UDivByZero ==
  (hist.lastDiv.valid /\ hist.lastDiv.divisor = 0) =>
     /\ hist.lastDiv.quotient = 2^WordBits - 1
     /\ hist.lastDiv.remainder = 2^WordBits - 1
     /\ hist.lastDiv.observed => "GeneratedNanOrInf" \in hist.lastDiv.flags

\* the observed lane divided a non-zero dividend by zero, and the state returned for
\* that step carries the flag
C16_Witness ==
  /\ hist.lastDiv.valid
  /\ hist.lastDiv.observed
  /\ hist.lastDiv.divisor = 0
  /\ hist.lastDiv.dividend = 2^WordBits - 1
  /\ hist.lastDiv.quotient = 2^WordBits - 1
  /\ pc = "tangle"
  /\ ret # <<>>
  /\ "GeneratedNanOrInf" \in Last(ret).flags

\* C17: an instruction that fails on one lane (unknown pointer or allocation,
\* unresolvable resource handle, unhandled opcode, rejected GetElementPtr, a wave
\* query with no lane to answer it) leaves its result zero, the lane goes on to its
\* next instruction, and stepping never stops.
C17_FailureContained ==
  /\ hist.lastFail.valid =>
        /\ hist.lastFail.default
        /\ hist.lastFail.committed
        /\ hist.lastFail.next
        /\ ~hist.lastFail.finished
  /\ pc # "fault"

\* the handle resolutions of the last instruction executed
LastResolutions == { hist.lastRes[i] : i \in DOMAIN hist.lastRes }

AccessRecorded(r) ==
  /\ Len(r.records) = 1
  /\ r.records[1].after.type = r.info.category
  /\ r.first => r.records[1].before = EmptyVar
  /\ ~r.first => r.records[1].before = r.records[1].after

C20_UnreachableDead ==
  /\ [](\A l \in hist.unreachable :
          /\ m_Workgroup[l].m_Dead
          /\ Finished(m_Workgroup[l])
          /\ \A i \in DOMAIN tangles : l \notin AliveIds(tangles[i]))
  /\ [][ \A l \in hist.unreachable :
           /\ l \in hist'.unreachable
           /\ (pc = "lane" /\ RemainingLanes(loc.lane) # {} /\ NextLane = l) =>
                 (hist' = hist /\ m_Workgroup' = m_Workgroup /\ heap' = heap)
           /\ (l \in DOMAIN hist.stepCount /\ l \in DOMAIN hist'.stepCount) =>
                 hist'.stepCount[l] <= hist.stepCount[l]
      ]_vars

\* a lane died on Unreachable and the other lanes were stepped in later iterations
\* until the observed lane returned
C20_Witness ==
  /\ program = "Kill"
  /\ hist.unreachable # {}
  /\ m_ActiveLaneIndex \notin hist.unreachable
  /\ SessionOver
  /\ VarAt(GetActiveLane, 3).value = m_ActiveLaneIndex + 5

-----------------------------------------------------------------------------
\* C21: a lane that executed Discard with a true condition is a helper lane from then
\* on and is not made dead, so it stays in the workgroup.
C21_DiscardDemotes ==
  \A l \in hist.discarded : m_Workgroup[l].m_Helper /\ ~m_Workgroup[l].m_Dead

C23_DivergedDerivIsZero ==
  (hist.lastDeriv.valid /\ hist.lastDeriv.complete /\ hist.lastDeriv.diverged) =>
     hist.lastDeriv.result = 0

\* C24: a Float result committed by a flushing operation was computed from operands
\* whose subnormal values had been replaced by zero, and is not itself subnormal.
C24_DenormsFlushed ==
  hist.lastFloat.valid =>
     LET a == flush_denorm(hist.lastFloat.a)
         b == flush_denorm(hist.lastFloat.b)
         r == FromUnits(IF hist.lastFloat.op = "FAdd" THEN FloatUnits(a) + FloatUnits(b)
                        ELSE FloatUnits(a) - FloatUnits(b))
     IN /\ hist.lastFloat.committed = flush_denorm(r)
        /\ ~IsDenorm(hist.lastFloat.committed)

\* C25: when an instruction produces a named result id r, after the step the lane has
\* r live and assigned and its table maps r to the result; on the observed lane exactly
\* one change is appended for it, from the previous value of r (the empty variable
\* when r was never assigned) to the result, the step's only other changes being the
\* resource accesses it recorded and, for an atomic, the two changes of the memory it
\* wrote (the base variable and the pointer variable); on any other lane none is
\* appended.
C25_ResultCommitted ==
  hist.lastCommit.valid =>
     /\ hist.lastCommit.live
     /\ hist.lastCommit.assigned
     /\ hist.lastCommit.table = hist.lastCommit.result
     /\ ~hist.lastCommit.prevAssigned => hist.lastCommit.prev = EmptyVar
     /\ hist.lastCommit.observed =>
           /\ Len(hist.lastCommit.records) =
                 hist.lastCommit.accesses + hist.lastCommit.memory + 1
           /\ hist.lastCommit.records[Len(hist.lastCommit.records)] =
                 Change(hist.lastCommit.prev, hist.lastCommit.result)
     /\ ~hist.lastCommit.observed => hist.lastCommit.untouched

\* the observed lane has executed Add 2, 3 into an id never assigned before: the
\* table holds 5 and the step's only change is {before: unassigned, after: 5}
C25_Witness ==
  /\ hist.lastCommit.valid
  /\ hist.lastCommit.observed
  /\ hist.lastCommit.op = "Add"
  /\ ~hist.lastCommit.prevAssigned
  /\ hist.lastCommit.table.value = 5
  /\ hist.lastCommit.records = <<Change(EmptyVar, ShaderVariable(<<hist.lastCommit.id>>, 5, <<>>))>>
  /\ loc.state.changes = hist.lastCommit.records

\* C26: Operation::UDiv with a zero divisor gives a quotient of all ones and raises the
\* GeneratedNanOrInf flag of the step.
C26_UDivSentinel ==
  (hist.lastInt.valid /\ hist.lastInt.op = "OpUDiv" /\ hist.lastInt.b = 0) =>
     /\ hist.lastInt.result = 2^WordBits - 1
     /\ hist.lastInt.observed => "GeneratedNanOrInf" \in hist.lastInt.flags

\* the instruction the lane whose turn it is stands at
PendingInst == InstAt(Prog, m_Workgroup[NextLane].m_FunctionInstructionIdx)

\* C27: Operation::URem and Operation::SRem with a zero divisor never run the host's
\* remainder by zero, and raise the GeneratedNanOrInf flag of the step.
C27_RemByZero ==
  /\ (/\ hist.lastInt.valid
      /\ hist.lastInt.op \in {"URem", "SRem"}
      /\ hist.lastInt.b = 0
      /\ hist.lastInt.observed) => "GeneratedNanOrInf" \in hist.lastInt.flags
  /\ ~(/\ pc = "fault"
       /\ PendingInst.op \in {"URem", "SRem"}
       /\ GetShaderVariable(m_Workgroup[NextLane], PendingInst.args[2]).value = 0)

\* the ordered comparison an unordered one extends
OrderedPart(op, a, b) ==
  CASE op = "FUnord" -> FALSE
    [] op = "FUnordEqual" -> FloatOrder(a, b) = 0
    [] op = "FUnordNotEqual" -> FloatOrder(a, b) # 0
    [] op = "FUnordGreater" -> FloatOrder(a, b) > 0
    [] op = "FUnordGreaterEqual" -> FloatOrder(a, b) >= 0
    [] op = "FUnordLess" -> FloatOrder(a, b) < 0
    [] op = "FUnordLessEqual" -> FloatOrder(a, b) <= 0

\* C28: every unordered comparison is true when an operand is a NaN and otherwise
\* gives the result of the corresponding ordered comparison.
C28_UnorderedCompare ==
  (hist.lastCmp.valid /\ hist.lastCmp.op \in Range(UnorderedOps)) =>
     LET a == flush_denorm(hist.lastCmp.a)
         b == flush_denorm(hist.lastCmp.b)
     IN hist.lastCmp.result =
          IF IsNaN(a) \/ IsNaN(b) \/ OrderedPart(hist.lastCmp.op, a, b) THEN 1 ELSE 0

\* the last Store of every lane that has executed one
ExecutedStores == { hist.stores[l] : l \in { k \in DOMAIN hist.stores : hist.stores[k].valid } }

\* C29: a Store writes the value to backing memory and brings the variable of the
\* owning allocation in line with backing memory on every lane; on the observed lane
\* it emits a change for the base variable and one for the pointer variable, on any
\* other lane none.
C29_StoreUpdates ==
  \A s \in ExecutedStores :
    /\ s.written
    /\ s.synced
    /\ s.observed =>
          /\ Len(s.records) = 2
          /\ s.records[1].after.name = <<s.base>>
          /\ s.records[2].after.name = <<s.ptrId>>
    /\ ~s.observed => s.untouched

\* the ids whose maximum-live point lies strictly before the point of the last observed step
ScopeEnded ==
  LET s == hist.lastScope
      current == ExecPointReference(s.block, s.instruction)
  IN { id \in DOMAIN s.live :
         /\ s.live[id]
         /\ ~s.isGlobal[id]
         /\ id \in DOMAIN Prog.maxExecPointPerId
         /\ IsAfter(current, Prog.maxExecPointPerId[id], Prog) }

\* the changes of the last observed step that report an id as gone out of scope
ScopeExits ==
  { i \in DOMAIN hist.lastScope.changes : hist.lastScope.changes[i].after = EmptyVar }

\* C30: a step of the observed lane reports exactly the live, non-global ids whose
\* maximum-live point is strictly before the current point, each once with before = its
\* value and after = empty, and leaves them not live; an id is not reported a second
\* time unless it was assigned in between.
C30_OutOfScopeReported ==
  hist.lastScope.valid =>
    LET s == hist.lastScope
    IN /\ \A id \in ScopeEnded :
            /\ \E i \in ScopeExits : SameVariable(s.changes[i].before, s.values[id])
            /\ ~s.liveAfter[id]
       /\ \A i \in ScopeExits : \E id \in ScopeEnded : SameVariable(s.changes[i].before, s.values[id])
       /\ Cardinality(ScopeExits) = Cardinality(ScopeEnded)
       /\ hist.reexited = {}

\* an observed step has reported an id as gone out of scope while another live id stays
C30_Witness ==
  /\ hist.lastScope.valid
  /\ ScopeEnded # {}
  /\ \E id \in DOMAIN hist.lastScope.live :
       hist.lastScope.live[id] /\ ~hist.lastScope.isGlobal[id] /\ id \notin ScopeEnded

\* the lanes of the subgroup of the lane that executed the last wave operation whose
\* active-mask entry is set and that are not helper lanes
WaveActiveLanes ==
  LET w == hist.lastWave
      firstLaneInSub == w.lane - w.subgroupIdx
  IN { l \in Lanes : /\ l >= firstLaneInSub
                     /\ l < firstLaneInSub + w.subgroupSize
                     /\ w.activeMask[l]
                     /\ l \notin w.helpers }

\* C31: a wave operation executed by a lane anywhere in the workgroup works on exactly
\* the active, non-helper lanes of that lane's subgroup: those are the lanes it reads,
\* a reduction adds up their operands, and the first of them is the first lane.
C31_SubgroupActiveLanes ==
  hist.lastWave.valid =>
    LET w == hist.lastWave
    IN /\ w.read = WaveActiveLanes
       /\ w.op = "WaveSum" =>
            w.result = U32(SumSeq([i \in 1..Cardinality(WaveActiveLanes) |->
                                     w.operands[SortedSeq(WaveActiveLanes)[i]]]))
       /\ w.op = "WaveIsFirstLane" /\ WaveActiveLanes # {} =>
            w.result = (IF w.lane = Min(WaveActiveLanes) THEN 1 ELSE 0)

\* C32: every pointer record of every lane refers to an allocation the lane holds and
\* to bytes of that allocation's backing buffer only.
C32_PointersInsideAllocations ==
  \A l \in Lanes : \A id \in DOMAIN m_Workgroup[l].m_Pointers :
    LET ptr == m_Workgroup[l].m_Pointers[id]
        allocations == m_Workgroup[l].m_Allocations
    IN /\ ptr.baseMemoryId \in DOMAIN allocations
       /\ ptr.memory = allocations[ptr.baseMemoryId].backingMemory
       /\ ptr.offset + ptr.size <= allocations[ptr.baseMemoryId].size

\* the free() calls made on a buffer
FreesOf(address) == { c \in hist.freed : c.address = address }

\* C33: once the Debugger is destroyed every backing buffer has been freed exactly
\* once, a lane's own buffer by that lane's destructor and a global buffer by the
\* GlobalState destructor.
C33_FreedOnce ==
  hist.destroyed =>
    \A address \in DOMAIN heap :
      /\ Cardinality(FreesOf(address)) = 1
      /\ \A c \in FreesOf(address) : c.by = address[1]

\* a Debugger destroyed after two or more lanes took over the allocation of a global
C33_Witness ==
  /\ hist.destroyed
  /\ \E address \in DOMAIN heap :
       /\ address[1] = -1
       /\ Cardinality({ l \in Lanes : \E id \in DOMAIN m_Workgroup[l].m_Allocations :
                           m_Workgroup[l].m_Allocations[id].backingMemory = address }) >= 2
       /\ FreesOf(address) # {}

\* what StepNext leaves of a lane and of memory that the program can see
Computed(o) ==
  [variables |-> o.t.m_Variables, memory |-> o.heap,
   dead |-> o.t.m_Dead, ended |-> o.t.m_Ended, helper |-> o.t.m_Helper,
   block |-> o.t.m_Block, instruction |-> o.t.m_FunctionInstructionIdx]

\* the step the next lane is about to take, with a ShaderDebugState or without
PendingStep(obs, undef) ==
  StepNext(m_Workgroup[NextLane], StepState(obs), obs, m_Workgroup, loc.activeMask, heap,
           m_GlobalState, Prog, SubgroupSize, undef)

\* C34: whatever lane is about to be stepped, StepNext with a ShaderDebugState and
\* StepNext with NULL leave the same value table, memory contents, dead, ended and
\* helper flags and next execution point.
C34_ObservationNeutral ==
  (pc = "lane" /\ RemainingLanes(loc.lane) # {} /\ ~Finished(m_Workgroup[NextLane])) =>
    \A undef \in Undefined :
      Computed(PendingStep(TRUE, undef)) = Computed(PendingStep(FALSE, undef))

\* C35: no atomic add to an element of a shared global allocation is lost: the
\* element, zero when the session began and written by nothing else, holds the sum of
\* the operands of all the atomic adds the lanes have executed on it.
C35_NoLostUpdate ==
  \A k \in DOMAIN hist.adds :
    k[1][1] = -1 => heap[k[1]][k[2]] = U32(hist.adds[k])

\* C36: an atomic read-modify-write on memory yields the value the location held
\* before the operation.
C36_AtomicYieldsOriginal ==
  hist.lastAtomic.valid => hist.lastAtomic.result = hist.lastAtomic.before

\* C37: a Load of a scalar through a pointer to a cell of a lane's own allocation
\* yields what the lane's last Store or atomic wrote to that cell, whichever pointer
\* id that write went through.
C37_LoadSeesLastWrite ==
  LET ld == hist.lastLoad
  IN (/\ ld.valid
      /\ ld.scalar
      /\ ld.written.valid
      /\ ld.written.scalar
      /\ ld.address[1] # -1
      /\ ld.written.address = ld.address
      /\ ld.written.cell = ld.cell)
     => ld.value = ld.written.value

\* C38: the unsigned-maximum atomic leaves in memory the larger of the value the
\* location held and the operand, both taken as unsigned integers.
C38_UnsignedMax ==
  (hist.lastAtomic.valid /\ hist.lastAtomic.op = "AtomicUMax") =>
    hist.lastAtomic.after = (IF hist.lastAtomic.before >= hist.lastAtomic.operand
                             THEN hist.lastAtomic.before ELSE hist.lastAtomic.operand)

\* C39: IsHelperLane yields 1 when the executing lane's helper flag is set and 0 when
\* it is not.
C39_IsHelperLane ==
  hist.lastHelper.valid =>
    hist.lastHelper.result = (IF hist.lastHelper.helper THEN 1 ELSE 0)

\* C40: an ordered comparison other than FOrdTrue yields false when an operand is
\* a NaN.
C40_OrderedFalseOnNaN ==
  (/\ hist.lastCmp.valid
   /\ hist.lastCmp.op \in Range(OrderedOps)
   /\ IsNaN(hist.lastCmp.a) \/ IsNaN(hist.lastCmp.b))
  => hist.lastCmp.result = 0

====
